---- MODULE Spec2Model ----
(***************************************************************************)
(* The anonymous Diffie-Hellman key exchange of lib/auth_anon.c: the four  *)
(* handlers gen_anon_server_kx, proc_anon_server_kx, gen_anon_client_kx    *)
(* and proc_anon_client_kx acting on the fields of a session's GNUTLS_KEY, *)
(* followed by the buffered session interface of lib/sbuf.c, the           *)
(* certificate set of lib/x509/pkcs7.c and the token operations of         *)
(* lib/pkcs11_privkey.c.                                                   *)
(*                                                                         *)
(* Big integers are small naturals.  An octet holds ByteBase values (256   *)
(* in the program); the width is scaled down so that moduli of several     *)
(* octets, and the 16-bit length prefix, stay inside TLC's integers.       *)
(***************************************************************************)
EXTENDS Integers, Sequences, FiniteSets, TLC

VARIABLES key, last, ncalls, srv, cli, wire, pc, sb, session, slast, pkcs7, plast,
          privkey, klast

vars ==
    <<key, last, ncalls, srv, cli, wire, pc, sb, session, slast, pkcs7, plast,
      privkey, klast>>

\* The variables of the other files than the one an action belongs to.
outsideAnon == <<sb, session, slast, pkcs7, plast, privkey, klast>>

outsideSbuf == <<key, last, ncalls, srv, cli, wire, pc, pkcs7, plast, privkey, klast>>

outsidePkcs7 ==
    <<key, last, ncalls, srv, cli, wire, pc, sb, session, slast, privkey, klast>>

outsidePkcs11 ==
    <<key, last, ncalls, srv, cli, wire, pc, sb, session, slast, pkcs7, plast>>

\* ------------------------------------------------------------------ bounds

\* Number of values of one octet (256 in the program).
ByteBase == 4

\* Private exponents the random generator may produce: 1..MaxExp.
MaxExp == 3

\* Handler calls made on the one session of Spec.
MaxCalls == 3

\* Longest buffer of arbitrary octets given to a decoder.
MaxArb == 3

\* ------------------------------------------------------- octets and integers

\* uint16: two octets.
Uint16Mod == ByteBase * ByteBase

RECURSIVE NBytes(_)
\* Number of octets of the minimal unsigned big-endian form (0 has none).
NBytes(v) == IF v = 0 THEN 0 ELSE 1 + NBytes(v \div ByteBase)

RECURSIVE _gnutls_mpi_print(_)
\* _gnutls_mpi_print: the minimal unsigned big-endian octets of v.
_gnutls_mpi_print(v) ==
    IF v = 0 THEN <<>> ELSE Append(_gnutls_mpi_print(v \div ByteBase), v % ByteBase)

RECURSIVE mpi_value(_)
\* _gnutls_mpi_scan: the value of an unsigned big-endian octet run.
mpi_value(b) ==
    IF b = <<>> THEN 0
    ELSE mpi_value(SubSeq(b, 1, Len(b) - 1)) * ByteBase + b[Len(b)]

RECURSIVE gcry_mpi_get_nbits(_)
\* gcry_mpi_get_nbits: the bit length of v.
gcry_mpi_get_nbits(v) == IF v = 0 THEN 0 ELSE 1 + gcry_mpi_get_nbits(v \div 2)

RECURSIVE gcry_mpi_powm(_, _, _)
\* gcry_mpi_powm: b^e mod m.
gcry_mpi_powm(b, e, m) ==
    IF e = 0 THEN 1 % m ELSE (gcry_mpi_powm(b, e - 1, m) * (b % m)) % m

\* WRITEuint16: the two octets of n, truncated to 16 bits, big-endian.
WRITEuint16(n) == <<(n % Uint16Mod) \div ByteBase, n % ByteBase>>

\* An octet of a buffer at a C index (from 0); outside the buffer the octet
\* is whatever lies behind it in memory, taken as 0.
Octet(data, i) == IF i >= 0 /\ i < Len(data) THEN data[i + 1] ELSE 0

\* READuint16: the big-endian uint16 at C index i.
READuint16(data, i) == Octet(data, i) * ByteBase + Octet(data, i + 1)

\* The n octets at C index i.
Run(data, i, n) == [j \in 1..n |-> Octet(data, i + j - 1)]

\* Writing octets b into buffer buf at C index i.
Poke(buf, i, b) ==
    [j \in 1..Len(buf) |-> IF j > i /\ j <= i + Len(b) THEN b[j - i] ELSE buf[j]]

\* Content of freshly allocated memory.
Garbage == -1

\* gnutls_malloc(n) when it succeeds.
Malloc(n) == [j \in 1..n |-> Garbage]

\* ------------------------------------------------------------ MPI pointers

\* An MPI variable: NULL, or a pointer to a live integer of value v.
NULL == [st |-> "null", v |-> 0]

Mpi(v) == [st |-> "live", v |-> v]

\* _gnutls_mpi_release(&m): the integer is released and the pointer set to NULL.
_gnutls_mpi_release(m) == NULL

\* A session pointer that was set from a local variable (field = local):
\* both refer to one integer, so once the local has been released the field
\* refers to a released integer.
Aliased(field, local) ==
    IF field.st = "live" /\ local.st = "null"
    THEN [st |-> "released", v |-> field.v]
    ELSE field

\* An octet buffer pointer: NULL or a live buffer b.
NoBuf == [st |-> "null", b |-> <<>>]

Buf(b) == [st |-> "live", b |-> b]

\* The names of the MPI variables of a record that still hold a live integer.
LiveIn(rec, names) == {n \in names : rec[n].st = "live"}

\* --------------------------------------------------------- collaborators

\* Modulus bit size used when no credential is configured.
DEFAULT_BITS == 9

\* Modulus bit size of a configured anonymous server credential.
CredBits == 3

NoCred == [st |-> "null", dh_bits |-> 0]

Cred(bits) == [st |-> "live", dh_bits |-> bits]

\* Modulus bit size of a credential whose modulus has as many octets as the
\* 16-bit length prefix has values.
HugeBits == 31

\* The Parameter Source: one fixed prime and generator per bit size.  For
\* HugeBits it is the first prime of Uint16Mod octets (2^30 + 3 when an octet
\* holds 4 values).
DHPrime(bits) ==
    IF bits = DEFAULT_BITS THEN 257
    ELSE IF bits = HugeBits THEN ByteBase ^ (Uint16Mod - 1) + 3
    ELSE 7

DHGenerator(bits) == 3

\* gnutls_get_dh_params(&p, bits): fresh copies of both, or neither.
gnutls_get_dh_params(bits, fails) ==
    IF fails THEN [g |-> NULL, p |-> NULL]
    ELSE [g |-> Mpi(DHGenerator(bits)), p |-> Mpi(DHPrime(bits))]

\* gnutls_calc_dh_secret(&x, g, p): a random exponent x and X = g^x mod p.
\* fail tells what it could not allocate: both ("calc"), the exponent only
\* ("calc_x"), or the public value only ("calc_X").
gnutls_calc_dh_secret(x, g, p, fail) ==
    [X |-> IF fail \in {"calc", "calc_X"} THEN NULL ELSE Mpi(gcry_mpi_powm(g.v, x, p.v)),
     x |-> IF fail \in {"calc", "calc_x"} THEN NULL ELSE Mpi(x)]

\* gnutls_calc_dh_key(f, x, prime): f^x mod prime, or NULL.
gnutls_calc_dh_key(f, x, prime, fails) ==
    IF fails THEN NULL ELSE Mpi(gcry_mpi_powm(f.v, x.v, prime.v))

\* gnutls_auth_get_type(state): the credential type of the negotiated key
\* exchange, which is the anonymous one whenever these handlers run.
gnutls_auth_get_type == "GNUTLS_ANON"

\* ------------------------------------------------------------ GNUTLS_KEY

NoAuthInfo == [st |-> "null", dh_bits |-> 0]

\* A session without auth_info.
NoInfo == [info |-> NoAuthInfo, type |-> "0", size |-> "0"]

\* The fields of state->gnutls_key right after the session is created.
NewKey(cred, a) ==
    [client_Y |-> NULL, client_g |-> NULL, client_p |-> NULL,
     dh_secret |-> NULL, KEY |-> NULL,
     key |-> [data |-> NoBuf, size |-> 0],
     auth_info |-> a.info, auth_info_type |-> a.type, auth_info_size |-> a.size,
     cred |-> cred]

\* What a handler hands back: the session fields, the return code (ret, with
\* the returned length in len on success), *data, leaked: the MPIs of this
\* call that are still allocated and referenced by nothing, held: the session
\* fields that keep an MPI allocated by this call, and rd: one past the
\* highest index of the input buffer that was read.
Return(k, ret, len, out, leaked, held, rd) ==
    [key |-> k, ret |-> ret, len |-> len, out |-> out, leaked |-> leaked,
     held |-> held, rd |-> rd]

\* The process dies of a NULL dereference inside the big-integer library.
Segv(k) == Return(k, "SIGSEGV", 0, NoBuf, {}, {}, 0)

\* The previous integer of a field that is overwritten without a release.
Lost(k, f) == IF k[f].st = "live" THEN {"old " \o f} ELSE {}

\* --------------------------------------------------- gen_anon_server_kx

\* server_auth_info without the comparison of the types.
server_auth_info_unchecked(k, malloc_fails) ==
    IF k.auth_info.st = "null"
    THEN IF malloc_fails
         THEN [ret |-> "GNUTLS_E_MEMORY_ERROR", key |-> k]
         ELSE [ret |-> "OK",
               key |-> [k EXCEPT !.auth_info = [st |-> "live", dh_bits |-> 0],
                                 !.auth_info_type = "GNUTLS_ANON",
                                 !.auth_info_size = "sizeof(ANON_SERVER_AUTH_INFO_INT)"]]
    ELSE [ret |-> "OK", key |-> k]

\* The NegotiatedInfo step of gen_anon_server_kx: allocate auth_info when
\* there is none, else require its type to be the negotiated one.
server_auth_info(k, malloc_fails) ==
    IF k.auth_info.st = "null"
    THEN IF malloc_fails
         THEN [ret |-> "GNUTLS_E_MEMORY_ERROR", key |-> k]
         ELSE [ret |-> "OK",
               key |-> [k EXCEPT !.auth_info = [st |-> "live", dh_bits |-> 0],
                                 !.auth_info_type = "GNUTLS_ANON",
                                 !.auth_info_size = "sizeof(ANON_SERVER_AUTH_INFO_INT)"]]
    ELSE IF gnutls_auth_get_type # k.auth_info_type
         THEN [ret |-> "GNUTLS_E_INVALID_REQUEST", key |-> k]
         ELSE [ret |-> "OK", key |-> k]

\* server_kx_message with the private exponent x printed where the public
\* value X belongs.
server_kx_message_prints_x(L) ==
    LET n_g == NBytes(L.g.v)
        n_p == NBytes(L.p.v)
        n_X == NBytes(L.x.v)
        d0 == Malloc(n_g + n_p + n_X + 6)
        d1 == Poke(d0, 2, _gnutls_mpi_print(L.p.v))
        d2 == Poke(d1, 0, WRITEuint16(n_p))
        d3 == Poke(d2, 2 + n_p + 2, _gnutls_mpi_print(L.g.v))
        d4 == Poke(d3, 2 + n_p, WRITEuint16(n_g))
        d5 == Poke(d4, 2 + n_p + 2 + n_g + 2, _gnutls_mpi_print(L.x.v))
        d6 == Poke(d5, 2 + n_p + 2 + n_g, WRITEuint16(n_X))
    IN [data |-> d6, len |-> n_p + n_g + n_X + 6]

\* The message of gen_anon_server_kx, written field by field into *data
\* from the locals p, g and X.
server_kx_message(L) ==
    LET n_g == NBytes(L.g.v)
        n_p == NBytes(L.p.v)
        n_X == NBytes(L.X.v)
        d0 == Malloc(n_g + n_p + n_X + 6)
        data_p == 0
        d1 == Poke(d0, data_p + 2, _gnutls_mpi_print(L.p.v))
        d2 == Poke(d1, data_p, WRITEuint16(n_p))
        data_g == data_p + 2 + n_p
        d3 == Poke(d2, data_g + 2, _gnutls_mpi_print(L.g.v))
        d4 == Poke(d3, data_g, WRITEuint16(n_g))
        data_X == data_g + 2 + n_g
        d5 == Poke(d4, data_X + 2, _gnutls_mpi_print(L.X.v))
        d6 == Poke(d5, data_X, WRITEuint16(n_X))
    IN [data |-> d6, len |-> n_p + n_g + n_X + 6]

\* server_kx_release without the release of X.
server_kx_release_keeps_X(L) ==
    [L EXCEPT !.p = _gnutls_mpi_release(@), !.g = _gnutls_mpi_release(@)]

\* server_kx_release releasing the exponent x as well.
server_kx_release_frees_x(L) ==
    [L EXCEPT !.p = _gnutls_mpi_release(@), !.g = _gnutls_mpi_release(@),
              !.X = _gnutls_mpi_release(@), !.x = _gnutls_mpi_release(@)]

\* The locals gen_anon_server_kx releases while it writes the message.
server_kx_release(L) ==
    [L EXCEPT !.p = _gnutls_mpi_release(@), !.g = _gnutls_mpi_release(@),
              !.X = _gnutls_mpi_release(@)]

\* gen_anon_server_kx(state, &data).  e.x is the exponent the random
\* generator yields, e.fail the step that fails for lack of memory.
gen_anon_server_kx(k, e) ==
    LET bits == IF k.cred.st = "null" THEN DEFAULT_BITS ELSE k.cred.dh_bits
        dh == gnutls_get_dh_params(bits, e.fail = "params")
        L0 == [x |-> NULL, X |-> NULL, g |-> dh.g, p |-> dh.p]
        all == {"x", "X", "g", "p"}
    IN
    IF L0.g = NULL \/ L0.p = NULL
    THEN Return(k, "GNUTLS_E_MEMORY_ERROR", 0, NoBuf, LiveIn(L0, all), {}, 0)
    ELSE
    LET a == server_auth_info(k, e.fail = "auth_info") IN
    IF a.ret # "OK"
    THEN Return(a.key, a.ret, 0, NoBuf, LiveIn(L0, all), {}, 0)
    ELSE
    LET k1 == [a.key EXCEPT !.auth_info.dh_bits = gcry_mpi_get_nbits(L0.p.v)]
        kp == gnutls_calc_dh_secret(e.x, L0.g, L0.p, e.fail)
        L1 == [L0 EXCEPT !.x = kp.x, !.X = kp.X]
    IN
    IF L1.X = NULL \/ L1.x = NULL
    THEN LET L2 == [n \in all |-> _gnutls_mpi_release(L1[n])]
         IN Return(k1, "GNUTLS_E_MEMORY_ERROR", 0, NoBuf, LiveIn(L2, all), {}, 0)
    ELSE
    LET k2 == [k1 EXCEPT !.dh_secret = L1.x]
        lost == Lost(k1, "dh_secret")
    IN
    IF e.fail = "data"
    THEN LET L2 == [L1 EXCEPT !.X = _gnutls_mpi_release(@), !.g = _gnutls_mpi_release(@),
                              !.p = _gnutls_mpi_release(@)]
         IN Return([k2 EXCEPT !.dh_secret = Aliased(@, L2.x)], "GNUTLS_E_MEMORY_ERROR", 0,
                   NoBuf, LiveIn(L2, all \ {"x"}) \cup lost, {"dh_secret"}, 0)
    ELSE
    LET m == server_kx_message(L1)
        L2 == server_kx_release(L1)
    IN Return([k2 EXCEPT !.dh_secret = Aliased(@, L2.x)], "OK", m.len, Buf(m.data),
              LiveIn(L2, all \ {"x"}) \cup lost, {"dh_secret"}, 0)

\* --------------------------------------------------- _gnutls_generate_key

\* _gnutls_generate_key printing the value behind a leading zero octet.
_gnutls_generate_key_padded(k, malloc_fails) ==
    LET size == NBytes(k.KEY.v) + 1 IN
    IF malloc_fails
    THEN [ret |-> "GNUTLS_E_MEMORY_ERROR",
          key |-> [k EXCEPT !.key = [data |-> NoBuf, size |-> size]]]
    ELSE [ret |-> "OK",
          key |-> [k EXCEPT !.key = [data |-> Buf(<<0>> \o _gnutls_mpi_print(k.KEY.v)),
                                     size |-> size]]]

\* _gnutls_generate_key(key): copy the MPI key->KEY to key->key as octets.
\* The size is stored first, then the buffer is allocated.
_gnutls_generate_key(k, malloc_fails) ==
    LET size == NBytes(k.KEY.v) IN
    IF malloc_fails
    THEN [ret |-> "GNUTLS_E_MEMORY_ERROR",
          key |-> [k EXCEPT !.key = [data |-> NoBuf, size |-> size]]]
    ELSE [ret |-> "OK",
          key |-> [k EXCEPT !.key = [data |-> Buf(_gnutls_mpi_print(k.KEY.v)), size |-> size]]]

\* --------------------------------------------------- gen_anon_client_kx

\* client_kx_message with the octet 1 written after the length prefix.
client_kx_message_keeps_marker(X) ==
    LET n_X == NBytes(X.v)
        d0 == Malloc(n_X + 2)
        d1 == Poke(d0, 2, _gnutls_mpi_print(X.v))
        d2 == Poke(d1, 0, WRITEuint16(n_X))
        d3 == Poke(d2, 0, <<1>>)
    IN [data |-> d3, len |-> n_X + 2]

\* The message of gen_anon_client_kx: the value at &data[2], then the octet 1
\* at data[0], then the length prefix over data[0..1].
client_kx_message(X) ==
    LET n_X == NBytes(X.v)
        d0 == Malloc(n_X + 2)
        d1 == Poke(d0, 2, _gnutls_mpi_print(X.v))
        d2 == Poke(d1, 0, <<1>>)
        d3 == Poke(d2, 0, WRITEuint16(n_X))
    IN [data |-> d3, len |-> n_X + 2]

\* client_kx_discard without the release of client_g.
client_kx_discard_keeps_g(k) ==
    [k EXCEPT !.client_Y = _gnutls_mpi_release(@), !.client_p = _gnutls_mpi_release(@)]

\* "THESE SHOULD BE DISCARDED": the three values stored by proc_anon_server_kx.
client_kx_discard(k) ==
    [k EXCEPT !.client_Y = _gnutls_mpi_release(@), !.client_p = _gnutls_mpi_release(@),
              !.client_g = _gnutls_mpi_release(@)]

\* gen_anon_client_kx(state, &data).  e.ub is what the big-integer library
\* does with a NULL argument: it dies, or it reports a failure.
gen_anon_client_kx(k, e) ==
    LET all == {"x", "X"} IN
    IF (k.client_g = NULL \/ k.client_p = NULL) /\ e.ub = "segv"
    THEN Segv(k)
    ELSE
    LET kp == IF k.client_g = NULL \/ k.client_p = NULL
              THEN [X |-> NULL, x |-> NULL]
              ELSE gnutls_calc_dh_secret(e.x, k.client_g, k.client_p, e.fail)
        L0 == [x |-> kp.x, X |-> kp.X]
    IN
    IF L0.X = NULL
    THEN Return(k, "GNUTLS_E_MEMORY_ERROR", 0, NoBuf, LiveIn(L0, all), {}, 0)
    ELSE
    IF e.fail = "data"
    THEN Return(k, "GNUTLS_E_MEMORY_ERROR", 0, NoBuf, LiveIn(L0, all), {}, 0)
    ELSE
    LET m == client_kx_message(L0.X)
        L1 == [L0 EXCEPT !.X = _gnutls_mpi_release(@)]
    IN
    IF (k.client_Y = NULL \/ L1.x = NULL) /\ e.ub = "segv"
    THEN Segv(k)
    ELSE
    LET KEY == IF k.client_Y = NULL \/ L1.x = NULL THEN NULL
               ELSE gnutls_calc_dh_key(k.client_Y, L1.x, k.client_p, e.fail = "key")
        k1 == [k EXCEPT !.KEY = KEY]
    IN
    IF k1.KEY = NULL
    THEN Return(k1, "GNUTLS_E_MEMORY_ERROR", 0, Buf(m.data),
                LiveIn(L1, all) \cup Lost(k, "KEY"), {}, 0)
    ELSE
    LET k2 == client_kx_discard(k1)
        gk == _gnutls_generate_key(k2, e.fail = "keydata")
        k3 == [gk.key EXCEPT !.KEY = _gnutls_mpi_release(@)]
        leaked == LiveIn(L1, all) \cup Lost(k, "KEY")
        held == LiveIn(k3, {"KEY"})
    IN
    IF gk.ret # "OK"
    THEN Return(k3, gk.ret, 0, Buf(m.data), leaked, held, 0)
    ELSE Return(k3, "OK", m.len, Buf(m.data), leaked, held, 0)

\* ------------------------------------------------------------- decoding

\* DECR_LEN(len, x): len -= x, and the handler returns
\* GNUTLS_E_UNEXPECTED_PACKET_LENGTH when len became negative.
DECR_LEN(len, x) == [len |-> len - x, ok |-> len - x >= 0]

\* _gnutls_mpi_scan(&m, buffer, &n): on success m points to a new integer
\* with the value of the n octets; on failure m is left as it was.
_gnutls_mpi_scan(m, octets, fails) ==
    IF fails THEN [rc |-> 1, m |-> m] ELSE [rc |-> 0, m |-> Mpi(mpi_value(octets))]

Max(a, b) == IF a >= b THEN a ELSE b

\* take_field without the check of the second DECR_LEN.
take_field_unchecked(data, len, i) ==
    LET s1 == DECR_LEN(len, 2)
        n == READuint16(data, i)
        s2 == DECR_LEN(s1.len, n)
    IN
    IF ~s1.ok THEN [ok |-> FALSE, len |-> s1.len, n |-> 0, ptr |-> i, i |-> i, rd |-> 0]
    ELSE [ok |-> TRUE, len |-> s2.len, n |-> n, ptr |-> i + 2, i |-> i + 2 + n,
          rd |-> i + 2]

\* take_field refusing a declared length of zero.
take_field_rejects_zero(data, len, i) ==
    LET s1 == DECR_LEN(len, 2)
        n == READuint16(data, i)
        s2 == DECR_LEN(s1.len, n)
    IN
    IF ~s1.ok THEN [ok |-> FALSE, len |-> s1.len, n |-> 0, ptr |-> i, i |-> i, rd |-> 0]
    ELSE IF ~s2.ok \/ n = 0
    THEN [ok |-> FALSE, len |-> s2.len, n |-> n, ptr |-> i + 2, i |-> i + 2, rd |-> i + 2]
    ELSE [ok |-> TRUE, len |-> s2.len, n |-> n, ptr |-> i + 2, i |-> i + 2 + n,
          rd |-> i + 2]

\* One length-prefixed field at index i with len octets left:
\*   DECR_LEN(len, 2); n = READuint16(&data[i]); i += 2;
\*   DECR_LEN(len, n); ptr = &data[i]; i += n;
\* rd is one past the highest index read, 0 when nothing was read.
take_field(data, len, i) ==
    LET s1 == DECR_LEN(len, 2)
        n == READuint16(data, i)
        s2 == DECR_LEN(s1.len, n)
    IN
    IF ~s1.ok THEN [ok |-> FALSE, len |-> s1.len, n |-> 0, ptr |-> i, i |-> i, rd |-> 0]
    ELSE IF ~s2.ok
    THEN [ok |-> FALSE, len |-> s2.len, n |-> n, ptr |-> i + 2, i |-> i + 2, rd |-> i + 2]
    ELSE [ok |-> TRUE, len |-> s2.len, n |-> n, ptr |-> i + 2, i |-> i + 2 + n,
          rd |-> i + 2]

\* The length accounting of proc_anon_server_kx, before anything is parsed:
\* the offsets and lengths of the three fields, or the failure.  After the
\* first field the index i is compared with what is left of data_size.
\* (The steps are listed last to first: each one names the step after it.)
server_kx_lengths(data, data_size) ==
    LET bad(rd) == [ok |-> FALSE, rd |-> rd, n_p |-> 0, n_g |-> 0, n_Y |-> 0,
                    data_p |-> 0, data_g |-> 0, data_Y |-> 0]
        after_Y(fp, fg, fY) ==
            IF ~fY.ok THEN bad(Max(fg.rd, fY.rd))
            ELSE [ok |-> TRUE, rd |-> fY.rd, n_p |-> fp.n, n_g |-> fg.n, n_Y |-> fY.n,
                  data_p |-> fp.ptr, data_g |-> fg.ptr, data_Y |-> fY.ptr]
        after_g(fp, fg) ==
            IF ~fg.ok THEN bad(Max(fp.rd, fg.rd))
            ELSE after_Y(fp, fg, take_field(data, fg.len, fg.i))
        after_p(fp) ==
            IF ~fp.ok THEN bad(fp.rd)
            ELSE IF fp.i > fp.len THEN bad(fp.rd)
            ELSE after_g(fp, take_field(data, fp.len, fp.i))
    IN after_p(take_field(data, data_size, 0))

\* client_auth_info recording the bit length of the generator.
client_auth_info_bits_of_g(k, malloc_fails) ==
    LET k1 == IF k.auth_info.st = "null" /\ ~malloc_fails
              THEN [k EXCEPT !.auth_info = [st |-> "live", dh_bits |-> 0]]
              ELSE k
    IN
    IF k.auth_info.st # "null" /\ gnutls_auth_get_type # k.auth_info_type
    THEN [ret |-> "GNUTLS_E_INVALID_REQUEST", key |-> k]
    ELSE IF k1.auth_info.st = "null"
    THEN [ret |-> "GNUTLS_E_MEMORY_ERROR", key |-> k1]
    ELSE [ret |-> "OK",
          key |-> [k1 EXCEPT !.auth_info.dh_bits = gcry_mpi_get_nbits(k1.client_g.v),
                             !.auth_info_size = "sizeof(ANON_CLIENT_AUTH_INFO_INT)",
                             !.auth_info_type = "GNUTLS_ANON"]]

\* The NegotiatedInfo step of proc_anon_server_kx.
client_auth_info(k, malloc_fails) ==
    LET k1 == IF k.auth_info.st = "null" /\ ~malloc_fails
              THEN [k EXCEPT !.auth_info = [st |-> "live", dh_bits |-> 0]]
              ELSE k
    IN
    IF k.auth_info.st # "null" /\ gnutls_auth_get_type # k.auth_info_type
    THEN [ret |-> "GNUTLS_E_INVALID_REQUEST", key |-> k]
    ELSE IF k1.auth_info.st = "null"
    THEN [ret |-> "GNUTLS_E_MEMORY_ERROR", key |-> k1]
    ELSE [ret |-> "OK",
          key |-> [k1 EXCEPT !.auth_info.dh_bits = gcry_mpi_get_nbits(k1.client_p.v),
                             !.auth_info_size = "sizeof(ANON_CLIENT_AUTH_INFO_INT)",
                             !.auth_info_type = "GNUTLS_ANON"]]

\* One parse into a session field:
\*   if (_gnutls_mpi_scan(&key->f, octets, &n) != 0 || key->f == NULL)
\* s carries the session fields, and the lost and held MPIs of the call so far.
scan_into(s, f, octets, fails) ==
    LET r == _gnutls_mpi_scan(s.key[f], octets, fails)
        got == r.rc = 0
    IN [key |-> [s.key EXCEPT ![f] = r.m],
        failed |-> r.rc # 0 \/ r.m = NULL,
        lost |-> s.lost \cup (IF got THEN Lost(s.key, f) ELSE {}),
        held |-> s.held \cup (IF got /\ r.m.st = "live" THEN {f} ELSE {})]

\* proc_anon_server_kx(state, data, data_size): the client reads the server's
\* message.  The three values are parsed in the order Y, g, p.
\* (The steps are listed last to first: each one names the step after it.)
proc_anon_server_kx(k, data, data_size, e) ==
    LET scan_failed(s, rd) ==
            Return(s.key, "GNUTLS_E_MPI_SCAN_FAILED", 0, NoBuf, s.lost, s.held, rd)
        set_auth_info(s, a, rd) == Return(a.key, a.ret, 0, NoBuf, s.lost, s.held, rd)
        after_p(s, rd) ==
            IF s.failed THEN scan_failed(s, rd)
            ELSE set_auth_info(s, client_auth_info(s.key, e.fail = "auth_info"), rd)
        after_g(f, s, rd) ==
            IF s.failed THEN scan_failed(s, rd)
            ELSE after_p(scan_into(s, "client_p", Run(data, f.data_p, f.n_p),
                                   e.fail = "scan_p"), rd)
        after_Y(f, s, rd) ==
            IF s.failed THEN scan_failed(s, rd)
            ELSE after_g(f, scan_into(s, "client_g", Run(data, f.data_g, f.n_g),
                                      e.fail = "scan_g"), rd)
        after_lengths(f) ==
            IF ~f.ok
            THEN Return(k, "GNUTLS_E_UNEXPECTED_PACKET_LENGTH", 0, NoBuf, {}, {}, f.rd)
            ELSE after_Y(f, scan_into([key |-> k, failed |-> FALSE, lost |-> {}, held |-> {}],
                                      "client_Y", Run(data, f.data_Y, f.n_Y),
                                      e.fail = "scan_Y"),
                         Max(f.rd, f.data_Y + f.n_Y))
    IN after_lengths(server_kx_lengths(data, data_size))

\* client_kx_decode with client_Y parsed before DECR_LEN(data_size, n_Y).
client_kx_decode_scans_first(k, data, data_size, scan_fails) ==
    LET f == take_field(data, data_size, 0)
        sY == _gnutls_mpi_scan(k.client_Y, Run(data, 2, f.n), scan_fails)
        kY == [k EXCEPT !.client_Y = sY.m]
        got == sY.rc = 0
    IN
    IF ~f.ok /\ f.rd = 0
    THEN [ret |-> "GNUTLS_E_UNEXPECTED_PACKET_LENGTH", key |-> k, lost |-> {},
          held |-> {}, rd |-> f.rd]
    ELSE [ret |-> IF ~f.ok THEN "GNUTLS_E_UNEXPECTED_PACKET_LENGTH"
                  ELSE IF sY.rc # 0 \/ kY.client_Y = NULL
                  THEN "GNUTLS_E_MPI_SCAN_FAILED" ELSE "OK",
          key |-> kY,
          lost |-> IF got THEN Lost(k, "client_Y") ELSE {},
          held |-> IF got THEN LiveIn(kY, {"client_Y"}) ELSE {},
          rd |-> Max(f.rd, 2 + f.n)]

\* The decoding of proc_anon_client_kx: the length accounting of the one
\* field, then the parse of client_Y.
client_kx_decode(k, data, data_size, scan_fails) ==
    LET f == take_field(data, data_size, 0)
        sY == _gnutls_mpi_scan(k.client_Y, Run(data, 2, f.n), scan_fails)
        kY == [k EXCEPT !.client_Y = sY.m]
        got == sY.rc = 0
    IN
    IF ~f.ok
    THEN [ret |-> "GNUTLS_E_UNEXPECTED_PACKET_LENGTH", key |-> k, lost |-> {},
          held |-> {}, rd |-> f.rd]
    ELSE [ret |-> IF sY.rc # 0 \/ kY.client_Y = NULL
                  THEN "GNUTLS_E_MPI_SCAN_FAILED" ELSE "OK",
          key |-> kY,
          lost |-> IF got THEN Lost(k, "client_Y") ELSE {},
          held |-> IF got THEN LiveIn(kY, {"client_Y"}) ELSE {},
          rd |-> Max(f.rd, 2 + f.n)]

\* server_kx_discard without the release of dh_secret.
server_kx_discard_keeps_secret(k, L) ==
    [key |-> [k EXCEPT !.client_Y = _gnutls_mpi_release(@)],
     L |-> [L EXCEPT !.p = _gnutls_mpi_release(@), !.g = _gnutls_mpi_release(@)]]

\* What proc_anon_client_kx releases once the key is computed.
server_kx_discard(k, L) ==
    [key |-> [k EXCEPT !.client_Y = _gnutls_mpi_release(@),
                       !.dh_secret = _gnutls_mpi_release(@)],
     L |-> [L EXCEPT !.p = _gnutls_mpi_release(@), !.g = _gnutls_mpi_release(@)]]

\* proc_anon_client_kx(state, data, data_size): the server reads the client's
\* message and computes the key.
proc_anon_client_kx(k, data, data_size, e) ==
    LET bits == IF k.cred.st = "null" THEN DEFAULT_BITS ELSE k.cred.dh_bits
        dec == client_kx_decode(k, data, data_size, e.fail = "scan_Y")
        kY == dec.key
        lost == dec.lost
        held == dec.held
        rdY == dec.rd
        all == {"g", "p"}
    IN
    IF dec.ret # "OK"
    THEN Return(kY, dec.ret, 0, NoBuf, lost, held, rdY)
    ELSE
    LET dh == gnutls_get_dh_params(bits, e.fail = "params")
        L0 == [g |-> dh.g, p |-> dh.p]
    IN
    IF L0.g = NULL
    THEN Return(kY, "GNUTLS_E_MEMORY_ERROR", 0, NoBuf, LiveIn(L0, all) \cup lost, held, rdY)
    ELSE
    IF kY.dh_secret = NULL /\ e.ub = "segv"
    THEN Segv(kY)
    ELSE
    LET KEY == IF kY.dh_secret = NULL THEN NULL
               ELSE gnutls_calc_dh_key(kY.client_Y, kY.dh_secret, L0.p, e.fail = "key")
        k1 == [kY EXCEPT !.KEY = KEY]
    IN
    IF k1.KEY = NULL
    THEN Return(k1, "GNUTLS_E_MEMORY_ERROR", 0, NoBuf,
                LiveIn(L0, all) \cup lost \cup Lost(kY, "KEY"), held, rdY)
    ELSE
    LET d == server_kx_discard(k1, L0)
        gk == _gnutls_generate_key(d.key, e.fail = "keydata")
        k3 == [gk.key EXCEPT !.KEY = _gnutls_mpi_release(@)]
        leaked == LiveIn(d.L, all) \cup lost \cup Lost(kY, "KEY")
        held3 == LiveIn(k3, {"client_Y", "KEY"})
    IN Return(k3, gk.ret, 0, NoBuf, leaked, held3, rdY)

\* ------------------------------------------------------------ the inputs

Exponents == 1..MaxExp

BitSizes == {DEFAULT_BITS, CredBits}

Creds == {NoCred, Cred(CredBits)}

\* A session is created with no auth_info, or is reused after an exchange of
\* another credential type left its auth_info behind.
InitialAuthInfo ==
    {NoInfo,
     [info |-> [st |-> "live", dh_bits |-> 0], type |-> "GNUTLS_X509PKI",
      size |-> "sizeof(X509PKI_AUTH_INFO_INT)"]}

\* One length-prefixed field, with its declared length.
Field(n, octets) == WRITEuint16(n) \o octets

\* The encoding of a sequence of values, each behind its own length.
RECURSIVE Encode(_)
Encode(vs) ==
    IF vs = <<>> THEN <<>>
    ELSE Field(NBytes(Head(vs)), _gnutls_mpi_print(Head(vs))) \o Encode(Tail(vs))

\* The public values a peer can compute for a bit size.
PeerValues(bits) ==
    {gcry_mpi_powm(DHGenerator(bits), x, DHPrime(bits)) : x \in Exponents}

\* A decoder's input: the buffer and the data_size passed with it.
Input(data, data_size) == [data |-> data, data_size |-> data_size]

\* Every data_size from 0 to the whole buffer.
Cuts(buffers) == UNION {{Input(d, n) : n \in 0..Len(d)} : d \in buffers}

\* A field whose declared length is the largest a uint16 holds.
Oversized == Field(Uint16Mod - 1, <<1, 2>>)

\* The server exchange messages a server sends for each bit size.
ServerKxSent ==
    UNION {{Encode(<<DHPrime(b), DHGenerator(b), Y>>) : Y \in PeerValues(b)} :
           b \in BitSizes}

\* Server exchange messages: those, and one whose last field is oversized.
ServerKxData ==
    ServerKxSent \cup {Encode(<<DHPrime(CredBits), DHGenerator(CredBits)>>) \o Oversized}

\* Client exchange messages: a public value, the value 0, an oversized field.
ClientKxData ==
    {Encode(<<Y>>) : Y \in UNION {PeerValues(b) : b \in BitSizes} \cup {0}}
    \cup {Oversized}

\* A server exchange message whose second field is oversized.
ServerKxMalformed == {Encode(<<DHPrime(CredBits)>>) \o Oversized \o Encode(<<3>>)}

\* Server exchange messages with a field of declared length zero.
ZeroFieldData ==
    {Encode(<<0, 3, 2>>), Encode(<<DHPrime(CredBits), 0, 2>>),
     Encode(<<DHPrime(CredBits), 3, 0>>), Encode(<<0, 0, 0>>)}

\* Every buffer of at most MaxArb octets.
ArbitraryData == UNION {[1..n -> 0..(ByteBase - 1)] : n \in 0..MaxArb}

\* Whole buffers, and the buffers cut one octet short.
WholeOrShort(buffers) ==
    UNION {{Input(d, n) : n \in {Len(d), Len(d) - 1}} : d \in buffers}

\* --------------------------------------------- the other files, not in use

\* No gnutls_sbuf_st is allocated.
NoSbuf == [st |-> "null", session |-> "null", flags |-> 0, buf |-> <<>>]

\* A GnuTLS session as the buffered interface sees it: sent holds the octets
\* the record layer accepted, byes the calls of gnutls_bye, deinits those of
\* gnutls_deinit, alerts the error codes an alert was asked for.
NewSession == [st |-> "live", sent |-> <<>>, byes |-> 0, deinits |-> 0, alerts |-> <<>>]

NoSbufCall ==
    [op |-> "none", n |-> 0, ret |-> 0, data_size |-> 0, buffered |-> 0, lens |-> <<>>,
     got |-> 0, alerts |-> <<>>, written |-> <<>>, fail |-> "none"]

NoSbufUse == sb = NoSbuf /\ session = NewSession /\ slast = NoSbufCall

\* No gnutls_pkcs7 structure, and no call on one.
NoPkcs7 == [oid |-> "", certs |-> <<>>]

NoP7Call ==
    [op |-> "none", indx |-> 0, given |-> [st |-> "null", b |-> <<>>],
     size |-> "null", size_in |-> 0, fail |-> "none", ret |-> 0, certificate |-> [st |-> "null", b |-> <<>>],
     certificate_size |-> 0, unfreed |-> {}]

NoPkcs7Use == pkcs7 = NoPkcs7 /\ plast = NoP7Call

\* The gnutls_pkcs11_privkey_st of gnutls_pkcs11_privkey_init: calloc leaves
\* pk_algorithm 0, which is GNUTLS_PK_UNKNOWN.
NewPrivkey == [pk_algorithm |-> "GNUTLS_PK_UNKNOWN", flags |-> 0]

\* No call on the private key yet.
NoP11Call ==
    [op |-> "none", lookup |-> 0, token_func |-> FALSE, rret |-> 0, fail |-> "none",
     ret |-> 0, crashed |-> FALSE, opened |-> 0, closed |-> 0, closed_uninit |-> 0,
     used_uninit |-> FALSE, finds |-> 0, token_calls |-> <<>>, out |-> "null"]

NoPkcs11Use == privkey = NewPrivkey /\ klast = NoP11Call

OutsideAnonUnused == NoSbufUse /\ NoPkcs7Use /\ NoPkcs11Use

\* ------------------------------------------------- one session, any calls

NoCall ==
    [op |-> "none", ret |-> "OK", len |-> 0, out |-> NoBuf, leaked |-> {},
     held |-> {}, rd |-> 0, data |-> <<>>, data_size |-> 0, x |-> 0, fail |-> "none"]

\* The record of the last call: what it returned, what it was given, and the
\* step of it that failed for lack of memory.
Call(op, r, data, data_size, x, e) ==
    [op |-> op, ret |-> r.ret, len |-> r.len, out |-> r.out, leaked |-> r.leaked,
     held |-> r.held, rd |-> r.rd, data |-> data, data_size |-> data_size, x |-> x,
     fail |-> e.fail]

\* The process has not died, and the session may be called once more.
Alive == last.ret # "SIGSEGV" /\ ncalls < MaxCalls

Idle == ncalls' = ncalls + 1 /\ UNCHANGED <<srv, cli, wire, pc>> /\ UNCHANGED outsideAnon

\* The environment of one call: the step that fails for lack of memory (at
\* most one), and what a NULL argument does inside the big-integer library.
NoFailure == [fail |-> "none", ub |-> "segv"]

Failing(fails) == {[fail |-> f, ub |-> "segv"] : f \in fails}

NullTolerant == [fail |-> "none", ub |-> "null"]

\* The key-pair generator yields the public value without the exponent, and
\* the big-integer library reports a failure when given NULL.
ExponentUnset == [fail |-> "calc_x", ub |-> "null"]

GenServerFails == {"params", "auth_info", "calc", "calc_x", "calc_X", "data"}

GenClientFails == {"calc", "calc_x", "calc_X", "data", "key", "keydata"}

ProcServerFails == {"scan_Y", "scan_g", "scan_p", "auth_info"}

ProcClientFails == {"scan_Y", "params", "key", "keydata"}

\* The calls of a generating handler: every exponent without a failure, and
\* each other environment with the exponent 1.
GenCalls(envs) ==
    {[x |-> x, e |-> NoFailure] : x \in Exponents} \cup {[x |-> 1, e |-> e] : e \in envs}

\* The calls of a processing handler: every input without a failure, and each
\* other environment with the whole buffer rep.
ProcCalls(inputs, rep, envs) ==
    {[in |-> i, e |-> NoFailure] : i \in inputs}
    \cup {[in |-> Input(rep, Len(rep)), e |-> e] : e \in envs}

\* Well-formed messages that pass every length check.
ServerKxRep == Encode(<<DHPrime(CredBits), DHGenerator(CredBits), 3>>)

ClientKxRep == Encode(<<3>>)

ServerGenerateOn(calls) ==
    /\ Alive
    /\ \E c \in calls :
         LET r == gen_anon_server_kx(key, [x |-> c.x, fail |-> c.e.fail, ub |-> c.e.ub])
         IN /\ key' = r.key
            /\ last' = Call("gen_anon_server_kx", r, <<>>, 0, c.x, c.e)

ClientProcessOn(calls) ==
    /\ Alive
    /\ \E c \in calls :
         LET r == proc_anon_server_kx(key, c.in.data, c.in.data_size,
                                      [x |-> 0, fail |-> c.e.fail, ub |-> c.e.ub])
         IN /\ key' = r.key
            /\ last' = Call("proc_anon_server_kx", r, c.in.data, c.in.data_size, 0, c.e)

ClientGenerateOn(calls) ==
    /\ Alive
    /\ \E c \in calls :
         LET r == gen_anon_client_kx(key, [x |-> c.x, fail |-> c.e.fail, ub |-> c.e.ub])
         IN /\ key' = r.key
            /\ last' = Call("gen_anon_client_kx", r, <<>>, 0, c.x, c.e)

ServerProcessOn(calls) ==
    /\ Alive
    /\ \E c \in calls :
         LET r == proc_anon_client_kx(key, c.in.data, c.in.data_size,
                                      [x |-> 0, fail |-> c.e.fail, ub |-> c.e.ub])
         IN /\ key' = r.key
            /\ last' = Call("proc_anon_client_kx", r, c.in.data, c.in.data_size, 0, c.e)

ServerGenerate == ServerGenerateOn(GenCalls(Failing(GenServerFails))) /\ Idle

ClientProcess ==
    /\ ClientProcessOn(ProcCalls(WholeOrShort(ServerKxData), ServerKxRep,
                                 Failing(ProcServerFails)))
    /\ Idle

ClientGenerate ==
    /\ ClientGenerateOn(GenCalls(Failing(GenClientFails) \cup {NullTolerant, ExponentUnset}))
    /\ Idle

ServerProcess ==
    /\ ServerProcessOn(ProcCalls(WholeOrShort(ClientKxData), ClientKxRep,
                                 Failing(ProcClientFails) \cup {NullTolerant}))
    /\ Idle

Init ==
    /\ \E c \in Creds, a \in InitialAuthInfo : key = NewKey(c, a)
    /\ last = NoCall
    /\ ncalls = 0
    /\ srv = NewKey(NoCred, NoInfo)
    /\ cli = NewKey(NoCred, NoInfo)
    /\ wire = [s2c |-> NoBuf, c2s |-> NoBuf]
    /\ pc = "start"
    /\ OutsideAnonUnused

Next == ServerGenerate \/ ClientProcess \/ ClientGenerate \/ ServerProcess

Spec == Init /\ [][Next]_vars

\* ------------------------------- one session, any calls, memory suffices

CallsServerGenerate == ServerGenerateOn(GenCalls({})) /\ Idle

CallsClientProcess ==
    ClientProcessOn(ProcCalls(WholeOrShort(ServerKxData), ServerKxRep, {})) /\ Idle

CallsClientGenerate == ClientGenerateOn(GenCalls({NullTolerant})) /\ Idle

CallsServerProcess ==
    /\ ServerProcessOn(ProcCalls(WholeOrShort(ClientKxData), ClientKxRep, {NullTolerant}))
    /\ Idle

CallsNext ==
    CallsServerGenerate \/ CallsClientProcess \/ CallsClientGenerate
      \/ CallsServerProcess

SpecCalls == Init /\ [][CallsNext]_vars

\* ------------------- one session of a server configured with HugeBits

InitLarge ==
    /\ \E a \in InitialAuthInfo : key = NewKey(Cred(HugeBits), a)
    /\ last = NoCall
    /\ ncalls = 0
    /\ srv = NewKey(NoCred, NoInfo)
    /\ cli = NewKey(NoCred, NoInfo)
    /\ wire = [s2c |-> NoBuf, c2s |-> NoBuf]
    /\ pc = "start"
    /\ OutsideAnonUnused

SpecLarge == InitLarge /\ [][CallsNext]_vars

\* ------------- one session whose credential is reconfigured between calls

\* The application replaces the anonymous server credential of the session,
\* or removes it, between two handler calls.
SetCredentials ==
    /\ Alive
    /\ \E c \in Creds \ {key.cred} : key' = [key EXCEPT !.cred = c]
    /\ UNCHANGED <<last, ncalls, srv, cli, wire, pc>>
    /\ UNCHANGED outsideAnon

CredNext == CallsNext \/ SetCredentials

SpecCred == Init /\ [][CredNext]_vars

\* ------------------------------------------- one session, every truncation

\* At most one earlier call of any handler prepares the session.
DecodePrepare ==
    /\ pc = "start"
    /\ \/ ServerGenerateOn(GenCalls({}))
       \/ ClientProcessOn(ProcCalls(WholeOrShort(ServerKxData), ServerKxRep,
                                    Failing(ProcServerFails)))
       \/ ClientGenerateOn(GenCalls({NullTolerant}))
       \/ ServerProcessOn(ProcCalls(WholeOrShort(ClientKxData), ClientKxRep,
                                    {NullTolerant}))
    /\ pc' = "prepared"
    /\ ncalls' = ncalls + 1
    /\ UNCHANGED <<srv, cli, wire>>
    /\ UNCHANGED outsideAnon

\* proc_anon_server_kx on every message and every short buffer, cut at every
\* octet.
DecodeServerKx ==
    /\ pc \in {"start", "prepared"}
    /\ ClientProcessOn(ProcCalls(Cuts(ServerKxData \cup ServerKxMalformed \cup ZeroFieldData
                                        \cup ArbitraryData),
                                 ServerKxRep, {}))
    /\ pc' = "decoded"
    /\ ncalls' = ncalls + 1
    /\ UNCHANGED <<srv, cli, wire>>
    /\ UNCHANGED outsideAnon

\* proc_anon_client_kx on every message and every short buffer, cut at every
\* octet.
DecodeClientKx ==
    /\ pc \in {"start", "prepared"}
    /\ ServerProcessOn(ProcCalls(Cuts(ClientKxData \cup ArbitraryData), ClientKxRep,
                                 {NullTolerant}))
    /\ pc' = "decoded"
    /\ ncalls' = ncalls + 1
    /\ UNCHANGED <<srv, cli, wire>>
    /\ UNCHANGED outsideAnon

DecodeNext == DecodePrepare \/ DecodeServerKx \/ DecodeClientKx

SpecDecode == Init /\ [][DecodeNext]_vars

\* --------------------------------------- a server and a client, in order

HandshakeInit ==
    /\ \E c \in Creds : srv = NewKey(c, NoInfo)
    /\ cli = NewKey(NoCred, NoInfo)
    /\ wire = [s2c |-> NoBuf, c2s |-> NoBuf]
    /\ pc = "start"
    /\ last = NoCall
    /\ key = NewKey(NoCred, NoInfo)
    /\ ncalls = 0
    /\ OutsideAnonUnused

After(r, then) == IF r.ret = "OK" THEN then ELSE "failed"

\* The server sends its exchange message, on new sessions or to exchange
\* keys again on the sessions of a finished handshake.
HsServerGenerate ==
    /\ pc \in {"start", "done"}
    /\ \E x \in Exponents :
         LET r == gen_anon_server_kx(srv, [x |-> x, fail |-> "none", ub |-> "segv"])
         IN /\ srv' = r.key
            /\ wire' = [wire EXCEPT !.s2c = Buf(SubSeq(r.out.b, 1, r.len))]
            /\ last' = Call("gen_anon_server_kx", r, <<>>, 0, x, NoFailure)
            /\ pc' = After(r, "sent1")
    /\ UNCHANGED <<cli, key, ncalls>>
    /\ UNCHANGED outsideAnon

\* The client reads exactly what the server sent.
HsClientProcess ==
    /\ pc = "sent1"
    /\ LET r == proc_anon_server_kx(cli, wire.s2c.b, Len(wire.s2c.b), NoFailure)
       IN /\ cli' = r.key
          /\ last' = Call("proc_anon_server_kx", r, wire.s2c.b, Len(wire.s2c.b), 0, NoFailure)
          /\ pc' = After(r, "got1")
    /\ UNCHANGED <<srv, wire, key, ncalls>>
    /\ UNCHANGED outsideAnon

\* The client computes the key and sends its exchange message.
HsClientGenerate ==
    /\ pc = "got1"
    /\ \E x \in Exponents :
         LET r == gen_anon_client_kx(cli, [x |-> x, fail |-> "none", ub |-> "segv"])
         IN /\ cli' = r.key
            /\ wire' = [wire EXCEPT !.c2s = Buf(SubSeq(r.out.b, 1, r.len))]
            /\ last' = Call("gen_anon_client_kx", r, <<>>, 0, x, NoFailure)
            /\ pc' = After(r, "sent2")
    /\ UNCHANGED <<srv, key, ncalls>>
    /\ UNCHANGED outsideAnon

\* The server reads exactly what the client sent and computes the key.
HsServerProcess ==
    /\ pc = "sent2"
    /\ LET r == proc_anon_client_kx(srv, wire.c2s.b, Len(wire.c2s.b), NoFailure)
       IN /\ srv' = r.key
          /\ last' = Call("proc_anon_client_kx", r, wire.c2s.b, Len(wire.c2s.b), 0, NoFailure)
          /\ pc' = After(r, "done")
    /\ UNCHANGED <<cli, wire, key, ncalls>>
    /\ UNCHANGED outsideAnon

HandshakeNext ==
    HsServerGenerate \/ HsClientProcess \/ HsClientGenerate \/ HsServerProcess

Handshake == HandshakeInit /\ [][HandshakeNext]_vars

\* ------------------------------------------------------------ properties

Decoders == {"proc_anon_server_kx", "proc_anon_client_kx"}

\* A handler was called in this step.
Called(op) == ncalls' = ncalls + 1 /\ last'.op = op

\* The bit size a session's server handlers use.
BitsOf(k) == IF k.cred.st = "null" THEN DEFAULT_BITS ELSE k.cred.dh_bits

\* C1: after server-generate, client-process, client-generate and
\* server-process over a faithful transport, no operation has failed and
\* both sides hold the same raw key.
C1_Agreement ==
    /\ pc # "failed"
    /\ pc = "done" =>
         /\ srv.key.data.st = "live"
         /\ srv.key = cli.key

\* C2: client-process accepts the message of server-generate and stores the
\* modulus, the generator and the public value the server used.
C2_RoundTrip ==
    /\ ~(pc = "failed" /\ last.op = "proc_anon_server_kx")
    /\ pc = "got1" =>
         /\ cli.client_p = Mpi(DHPrime(BitsOf(srv)))
         /\ cli.client_g = Mpi(DHGenerator(BitsOf(srv)))
         /\ cli.client_Y = Mpi(gcry_mpi_powm(DHGenerator(BitsOf(srv)),
                                            srv.dh_secret.v, DHPrime(BitsOf(srv))))

\* Whether count length-prefixed fields starting at index off lie within
\* the first size octets of data.
RECURSIVE FieldsFit(_, _, _, _)
FieldsFit(data, size, off, count) ==
    IF count = 0 THEN TRUE
    ELSE /\ off + 2 <= size
         /\ off + 2 + READuint16(data, off) <= size
         /\ FieldsFit(data, size, off + 2 + READuint16(data, off), count - 1)

FieldCount(op) == IF op = "proc_anon_server_kx" THEN 3 ELSE 1

\* C3: a decoder reads no octet at an index >= data_size; when a length
\* prefix or a declared length does not fit in what remains it fails with
\* GNUTLS_E_UNEXPECTED_PACKET_LENGTH, and so does every proper truncation of
\* a server exchange message.
C3_BoundsSafe ==
    last.op \in Decoders =>
      /\ last.rd <= last.data_size
      /\ ~FieldsFit(last.data, last.data_size, 0, FieldCount(last.op))
           => last.ret = "GNUTLS_E_UNEXPECTED_PACKET_LENGTH"
      /\ (/\ last.op = "proc_anon_server_kx"
          /\ last.data \in ServerKxSent
          /\ last.data_size < Len(last.data))
           => last.ret = "GNUTLS_E_UNEXPECTED_PACKET_LENGTH"

\* A whole buffer whose last length prefix declares the largest uint16 was
\* refused after that prefix was read.
C3_Witness ==
    /\ last.op = "proc_anon_server_kx"
    /\ last.data_size = Len(last.data)
    /\ last.ret = "GNUTLS_E_UNEXPECTED_PACKET_LENGTH"
    /\ last.rd = last.data_size - 2
    /\ READuint16(last.data, last.rd - 2) = Uint16Mod - 1

\* The three values client-process stores are absent.
NoParams(k) == k.client_p = NULL /\ k.client_g = NULL /\ k.client_Y = NULL

\* C4: client-generate without stored parameters, and server-process without
\* a stored exponent, fail with GNUTLS_E_INVALID_REQUEST and leave no MPI of
\* the call allocated.
C4_MisuseRejected ==
    [][(\/ Called("gen_anon_client_kx") /\ NoParams(key)
        \/ Called("proc_anon_client_kx") /\ key.dh_secret = NULL)
       => /\ last'.ret = "GNUTLS_E_INVALID_REQUEST"
          /\ last'.leaked = {}
          /\ last'.held = {}]_vars

\* C5: a call that follows a completed exchange is rejected, and a second
\* server-generate right after the first, or a second client-process right
\* after the first, is rejected and leaves the stored values as they are.
C5_DoneIsTerminal ==
    [][/\ (/\ ncalls' = ncalls + 1
           /\ last.op \in {"proc_anon_client_kx", "gen_anon_client_kx"}
           /\ last.ret = "OK")
          => last'.ret # "OK"
       /\ (/\ Called("gen_anon_server_kx")
           /\ last.op = "gen_anon_server_kx" /\ last.ret = "OK")
          => last'.ret # "OK" /\ key'.dh_secret = key.dh_secret
       /\ (/\ Called("proc_anon_server_kx")
           /\ last.op = "proc_anon_server_kx" /\ last.ret = "OK")
          => /\ last'.ret # "OK"
             /\ key'.client_p = key.client_p
             /\ key'.client_g = key.client_g
             /\ key'.client_Y = key.client_Y]_vars

\* C6: a decoder that fails with GNUTLS_E_UNEXPECTED_PACKET_LENGTH leaves
\* every field of the session as it was and delivers no parsed value.
C6_TruncationFrame ==
    [][(ncalls' = ncalls + 1 /\ last'.ret = "GNUTLS_E_UNEXPECTED_PACKET_LENGTH")
       => /\ key' = key
          /\ last'.held = {}
          /\ last'.leaked = {}]_vars

\* The client's message was cut inside its value while the server's
\* exponent was stored.
C6_Witness ==
    /\ last.op = "proc_anon_client_kx"
    /\ last.ret = "GNUTLS_E_UNEXPECTED_PACKET_LENGTH"
    /\ last.data_size >= 3
    /\ last.data_size < Len(last.data)
    /\ key.dh_secret.st = "live"

\* The local MPI variables of the handlers.
Locals == {"x", "X", "g", "p"}

\* C7: a failing return of client-process, client-generate or server-process
\* leaves no MPI of the call allocated, in a local or in the session.
C7_NoLeakOnFailure ==
    (/\ last.op \in Decoders \cup {"gen_anon_client_kx"}
     /\ last.ret \notin {"OK", "SIGSEGV"})
    => /\ last.leaked \cap Locals = {}
       /\ last.held = {}

\* The message a server sends for (p, g, X), field after field.
ServerMessageOf(p, g, X) ==
    Field(NBytes(p), _gnutls_mpi_print(p)) \o Field(NBytes(g), _gnutls_mpi_print(g))
      \o Field(NBytes(X), _gnutls_mpi_print(X))

\* C8: the server's message is the encoding of the modulus, the generator
\* and the public value, and the client's message the encoding of its public
\* value: the exponent enters them only through the public value.
C8_ExponentNotSent ==
    [][/\ (Called("gen_anon_server_kx") /\ last'.out.st = "live")
          => last'.out.b =
               ServerMessageOf(DHPrime(BitsOf(key)), DHGenerator(BitsOf(key)),
                               gcry_mpi_powm(DHGenerator(BitsOf(key)), last'.x,
                                             DHPrime(BitsOf(key))))
       /\ (Called("gen_anon_client_kx") /\ last'.out.st = "live")
          => last'.out.b =
               Encode(<<gcry_mpi_powm(key.client_g.v, last'.x, key.client_p.v)>>)]_vars

\* A server message was produced from an exponent that differs from its
\* public value.
C8_Witness ==
    /\ last.op = "gen_anon_server_kx"
    /\ last.ret = "OK"
    /\ last.out.st = "live"
    /\ key.dh_secret.v # gcry_mpi_powm(DHGenerator(BitsOf(key)), key.dh_secret.v,
                                       DHPrime(BitsOf(key)))

\* C9: when client-generate returns, its local exponent x is released.
C9_ExponentReleased ==
    (last.op = "gen_anon_client_kx" /\ last.ret # "SIGSEGV") => "x" \notin last.leaked

\* C10: after a successful client-generate client_Y, client_p and client_g
\* are NULL.
C10_ParamsDiscarded ==
    (last.op = "gen_anon_client_kx" /\ last.ret = "OK") => NoParams(key)

\* Client-generate succeeded and delivered its message and the key.
C10_Witness ==
    /\ last.op = "gen_anon_client_kx"
    /\ last.ret = "OK"
    /\ last.out.st = "live"
    /\ key.key.data.st = "live"

\* C11: after a successful server-process the stored exponent, the peer's
\* public value and KEY are absent from the session, the locals g and p are
\* released, and the raw key is the one shared secret computed from the
\* peer's public value and the stored exponent.
C11_ServerProcessReleases ==
    [][(Called("proc_anon_client_kx") /\ last'.ret = "OK")
       => /\ key'.dh_secret = NULL
          /\ key'.client_Y = NULL
          /\ key'.KEY = NULL
          /\ last'.leaked \cap Locals = {}
          /\ last'.held = {}
          /\ key'.key.data =
               Buf(_gnutls_mpi_print(
                     gcry_mpi_powm(mpi_value(Run(last'.data, 2, READuint16(last'.data, 0))),
                                   key.dh_secret.v, DHPrime(BitsOf(key)))))]_vars

\* Server-process succeeded on a session that held an exponent, and
\* delivered a key.
C11_Witness ==
    /\ last.op = "proc_anon_client_kx"
    /\ last.ret = "OK"
    /\ key.key.data.st = "live"
    /\ key.key.size > 0
    /\ key.dh_secret = NULL

\* C12: after a successful server-generate the locals p, g and X are
\* released, the session retains of the call's MPIs the exponent only, and
\* the public value in the message is the generator raised to it.
C12_ServerKeepsExponentOnly ==
    (last.op = "gen_anon_server_kx" /\ last.ret = "OK")
    => /\ last.leaked \cap Locals = {}
       /\ last.held = {"dh_secret"}
       /\ key.dh_secret = Mpi(last.x)
       /\ LET n_p == READuint16(last.out.b, 0)
              n_g == READuint16(last.out.b, 2 + n_p)
              n_X == READuint16(last.out.b, 4 + n_p + n_g)
          IN mpi_value(Run(last.out.b, 6 + n_p + n_g, n_X)) =
               gcry_mpi_powm(DHGenerator(BitsOf(key)), key.dh_secret.v,
                             DHPrime(BitsOf(key)))

\* Server-generate succeeded with an exponent above 1.
C12_Witness ==
    /\ last.op = "gen_anon_server_kx"
    /\ last.ret = "OK"
    /\ key.dh_secret.st = "live"
    /\ key.dh_secret.v > 1
    /\ last.leaked = {}

\* The server exchange messages a server configured with b bits sends.
ServerKxSentFor(b) ==
    {Encode(<<DHPrime(b), DHGenerator(b), Y>>) : Y \in PeerValues(b)}

\* C13: after a successful server-generate, and after a successful
\* client-process, auth_info.dh_bits is the bit length of the modulus of the
\* message and auth_info_type is the anonymous type; on a message a server
\* sent the client records the bits that server records.
C13_BitsRecorded ==
    /\ (last.op = "gen_anon_server_kx" /\ last.ret = "OK")
       => /\ key.auth_info.st = "live"
          /\ key.auth_info.dh_bits = gcry_mpi_get_nbits(DHPrime(BitsOf(key)))
          /\ key.auth_info_type = "GNUTLS_ANON"
    /\ (last.op = "proc_anon_server_kx" /\ last.ret = "OK")
       => /\ key.auth_info.st = "live"
          /\ key.auth_info.dh_bits =
               gcry_mpi_get_nbits(mpi_value(Run(last.data, 2, READuint16(last.data, 0))))
          /\ key.auth_info_type = "GNUTLS_ANON"
          /\ \A b \in BitSizes :
               last.data \in ServerKxSentFor(b)
                 => key.auth_info.dh_bits = gcry_mpi_get_nbits(DHPrime(b))

\* Client-process accepted a message a server sent and recorded bits that
\* differ from the bit length of the generator.
C13_Witness ==
    /\ last.op = "proc_anon_server_kx"
    /\ last.ret = "OK"
    /\ last.data \in ServerKxSent
    /\ key.auth_info.dh_bits = CredBits
    /\ key.auth_info.dh_bits # gcry_mpi_get_nbits(key.client_g.v)

\* The session holds an auth_info of another credential type.
Mismatch(k) == k.auth_info.st = "live" /\ k.auth_info_type # "GNUTLS_ANON"

\* auth_info, its type and its size.
InfoOf(k) == <<k.auth_info, k.auth_info_type, k.auth_info_size>>

C15_ServerMessageFormat ==
    (last.op = "gen_anon_server_kx" /\ last.ret = "OK")
    => LET b == last.out.b
           p == DHPrime(BitsOf(key))
           g == DHGenerator(BitsOf(key))
           X == gcry_mpi_powm(g, key.dh_secret.v, p)
           n_p == NBytes(p)
           n_g == NBytes(g)
           n_X == NBytes(X)
       IN /\ last.len = n_p + n_g + n_X + 6
          /\ Len(b) = last.len
          /\ READuint16(b, 0) = n_p
          /\ Run(b, 2, n_p) = _gnutls_mpi_print(p)
          /\ READuint16(b, 2 + n_p) = n_g
          /\ Run(b, 4 + n_p, n_g) = _gnutls_mpi_print(g)
          /\ READuint16(b, 4 + n_p + n_g) = n_X
          /\ Run(b, 6 + n_p + n_g, n_X) = _gnutls_mpi_print(X)

\* C17: server-generate fails when its modulus has more octets than a
\* two-octet length holds, and no message it or client-generate produces
\* starts with a length that differs from the octets of its first value.
C17_NoLengthTruncation ==
    /\ (last.op = "gen_anon_server_kx" /\ NBytes(DHPrime(BitsOf(key))) >= Uint16Mod)
       => last.ret # "OK" /\ last.out.st = "null"
    /\ (last.op = "gen_anon_server_kx" /\ last.out.st = "live")
       => READuint16(last.out.b, 0) = NBytes(DHPrime(BitsOf(key)))
    /\ (last.op = "gen_anon_client_kx" /\ last.out.st = "live")
       => READuint16(last.out.b, 0) = Len(last.out.b) - 2

\* C16: the message of client-generate is its public value behind a
\* two-octet big-endian count of its octets, whose first octet is the high
\* octet of the count and not the 1 written before it; on success the value
\* returned is n_X + 2, the length of the message.
C16_ClientMessageFormat ==
    [][(Called("gen_anon_client_kx") /\ last'.out.st = "live")
       => LET b == last'.out.b
              X == gcry_mpi_powm(key.client_g.v, last'.x, key.client_p.v)
              n_X == NBytes(X)
          IN /\ Len(b) = n_X + 2
             /\ Octet(b, 0) = n_X \div ByteBase
             /\ Octet(b, 1) = n_X % ByteBase
             /\ Run(b, 2, n_X) = _gnutls_mpi_print(X)
             /\ last'.ret = "OK" => last'.len = n_X + 2]_vars

\* Client-generate succeeded with a public value of fewer octets than an
\* octet has values.
C16_Witness ==
    /\ last.op = "gen_anon_client_kx"
    /\ last.ret = "OK"
    /\ last.len = Len(last.out.b)
    /\ last.len \in 3..(ByteBase + 1)
    /\ Octet(last.out.b, 0) = 0

PairFailures == {"calc", "calc_x", "calc_X"}

\* C19: when the key-pair generator fails, or yields only one of the
\* exponent and the public value, server-generate, and client-generate
\* right after a successful client-process, return a failure, deliver no
\* message and store no exponent.
C19_NoPartialPair ==
    [][/\ (Called("gen_anon_server_kx") /\ last'.fail \in PairFailures)
          => /\ last'.ret \notin {"OK", "SIGSEGV"}
             /\ last'.out.st = "null"
             /\ key'.dh_secret = key.dh_secret
       /\ (/\ Called("gen_anon_client_kx")
           /\ last.op = "proc_anon_server_kx" /\ last.ret = "OK"
           /\ last'.fail \in PairFailures)
          => /\ last'.ret \notin {"OK", "SIGSEGV"}
             /\ last'.out.st = "null"]_vars

\* C20: a failing return of client-generate or server-process, on a session
\* whose earlier call (if any) succeeded, leaves key.data and key.size as
\* they were, and key.size is not given a new length while key.data is
\* absent.
C20_NoPartialKey ==
    [][(/\ ncalls' = ncalls + 1
        /\ last.ret = "OK"
        /\ last'.op \in {"gen_anon_client_kx", "proc_anon_client_kx"}
        /\ last'.ret \notin {"OK", "SIGSEGV"})
       => /\ key'.key = key.key
          /\ key'.key.data.st = "null" => key'.key.size = key.key.size]_vars

\* The modulus field of a server exchange message.
SentModulus(b) == mpi_value(Run(b, 2, READuint16(b, 0)))

\* C21: a server-process that succeeds as the next call after a successful
\* server-generate computes the raw key over the modulus that server-generate
\* sent in its message, also when the credential was changed in between.
C21_SameModulus ==
    [][(/\ Called("proc_anon_client_kx")
        /\ last.op = "gen_anon_server_kx" /\ last.ret = "OK"
        /\ last'.ret = "OK")
       => key'.key.data =
            Buf(_gnutls_mpi_print(
                  gcry_mpi_powm(mpi_value(Run(last'.data, 2, READuint16(last'.data, 0))),
                                key.dh_secret.v, SentModulus(last.out.b))))]_vars

\* C22: the raw key a successful client-generate or server-process stores is
\* the minimal big-endian octets of the peer's public value raised to the
\* own exponent modulo the modulus, key.size is the number of those octets,
\* and KEY is released when the handler returns.
C22_RawKey ==
    [][/\ (Called("gen_anon_client_kx") /\ last'.ret = "OK")
          => /\ key'.key.data =
                  Buf(_gnutls_mpi_print(gcry_mpi_powm(key.client_Y.v, last'.x,
                                                      key.client_p.v)))
             /\ key'.key.size = Len(key'.key.data.b)
             /\ key'.KEY = NULL
             /\ "KEY" \notin last'.held
       /\ (Called("proc_anon_client_kx") /\ last'.ret = "OK")
          => /\ key'.key.data =
                  Buf(_gnutls_mpi_print(
                        gcry_mpi_powm(mpi_value(Run(last'.data, 2, last'.data_size - 2)),
                                      key.dh_secret.v, DHPrime(BitsOf(key)))))
             /\ key'.key.size = Len(key'.key.data.b)
             /\ key'.KEY = NULL
             /\ "KEY" \notin last'.held]_vars

\* Client-generate succeeded and stored a raw key of two octets.
C22_Witness ==
    /\ last.op = "gen_anon_client_kx"
    /\ last.ret = "OK"
    /\ key.key.size = 2
    /\ Len(key.key.data.b) = 2
    /\ key.KEY = NULL

\* C23: between calls the session never holds a private exponent together
\* with a stored peer public value or stored parameters.
C23_OneRole ==
    ~(/\ key.dh_secret.st = "live"
      /\ LiveIn(key, {"client_Y", "client_p", "client_g"}) # {})

\* The MPI pointers of the session.
SessionMpis == {"dh_secret", "client_Y", "client_p", "client_g", "KEY"}

\* C24: between calls, after success and after failure, each of dh_secret,
\* client_Y, client_p, client_g and KEY is NULL or refers to an integer that
\* has not been released, so that no later release of a session field
\* releases an integer again.
C24_NoDangling ==
    \A f \in SessionMpis : key[f].st \in {"null", "live"}

\* Server-generate failed to allocate its message after it released X, g and
\* p, and the session refers to the exponent.
C24_Witness ==
    /\ last.op = "gen_anon_server_kx"
    /\ last.fail = "data"
    /\ last.ret = "GNUTLS_E_MEMORY_ERROR"
    /\ key.dh_secret = Mpi(last.x)

\* ================================================================ lib/sbuf.c

\* Longest data of one gnutls_sbuf_write.
MaxWrite == 3

\* Calls of the library (record layer, handshake, alert) within one call of
\* the buffered interface.
MaxScript == 3

\* Calls of the buffered interface on the one gnutls_sbuf_st of SpecSbuf.
MaxSbufCalls == 3

\* MAX_RECORD_SEND_SIZE(session): the most octets one record carries (16384
\* by default in the program).
MAX_RECORD_SEND_SIZE == 2

GNUTLS_SBUF_WRITE_FLUSHES == 1

\* Error codes: two that are not fatal, and fatal ones.
GNUTLS_E_AGAIN == -28

GNUTLS_E_INTERRUPTED == -52

GNUTLS_E_PUSH_ERROR == -53

GNUTLS_E_DECRYPTION_FAILED == -24

GNUTLS_E_MEMORY_ERROR == -25

GNUTLS_E_INVALID_REQUEST == -50

GNUTLS_E_SHORT_MEMORY_BUFFER == -51

\* gnutls_error_is_fatal(error).
gnutls_error_is_fatal(error) ==
    IF error \in {GNUTLS_E_AGAIN, GNUTLS_E_INTERRUPTED} THEN 0 ELSE 1

Min(a, b) == IF a <= b THEN a ELSE b

Take(b, n) == SubSeq(b, 1, n)

Drop(b, n) == SubSeq(b, n + 1, Len(b))

\* flags & f, for a flag f that is a power of two.
HasFlag(flags, f) == (flags \div f) % 2 = 1

\* The condition of a do-while that runs its body once.
retry_never(ret) == FALSE

\* The condition of every do-while around a library call:
\*   while (ret < 0 && gnutls_error_is_fatal(ret) == 0)
retry(ret) == ret < 0 /\ gnutls_error_is_fatal(ret) = 0

\* do { ret = <library call>; } while (retry): script holds what the
\* successive calls of the library return.  done is FALSE when the script
\* ends before the loop does.
RECURSIVE do_while(_)
do_while(script) ==
    IF script = <<>> THEN [done |-> FALSE, ret |-> 0, rest |-> <<>>]
    ELSE IF retry(Head(script)) THEN do_while(Tail(script))
    ELSE [done |-> TRUE, ret |-> Head(script), rest |-> Tail(script)]

\* What a call of the buffered interface hands back: its return value, the
\* buffer and the octets accepted by the record layer after it, the buffer
\* lengths it passed to gnutls_record_send, what is left of the script.
SbufOut(done, ret, buf, sent, lens, rest) ==
    [done |-> done, ret |-> ret, buf |-> buf, sent |-> sent, lens |-> lens, rest |-> rest]

\* gnutls_record_send(session, data, length) accepts at most length octets.
Accepted(ret, length) == Min(ret, length)

\* The loop condition of gnutls_sbuf_write with > in place of >=.
write_flushes_above(flags, length) ==
    HasFlag(flags, GNUTLS_SBUF_WRITE_FLUSHES) /\ length > MAX_RECORD_SEND_SIZE

\* The loop condition of gnutls_sbuf_write.
write_flushes(flags, length) ==
    HasFlag(flags, GNUTLS_SBUF_WRITE_FLUSHES) /\ length >= MAX_RECORD_SEND_SIZE

RECURSIVE write_loop(_, _, _, _, _)
RECURSIVE write_sent(_, _, _, _, _)
\* The loop of gnutls_sbuf_write, at its condition.
write_loop(flags, buf, sent, lens, script) ==
    IF write_flushes(flags, Len(buf))
    THEN write_sent(flags, buf, sent, Append(lens, Len(buf)), do_while(script))
    ELSE SbufOut(TRUE, 0, buf, sent, lens, script)

\* The loop of gnutls_sbuf_write, after its do-while returned r.
write_sent(flags, buf, sent, lens, r) ==
    IF ~r.done THEN SbufOut(FALSE, 0, buf, sent, lens, <<>>)
    ELSE IF r.ret < 0 THEN SbufOut(TRUE, r.ret, buf, sent, lens, r.rest)
    ELSE write_loop(flags, Drop(buf, Accepted(r.ret, Len(buf))),
                    sent \o Take(buf, Accepted(r.ret, Len(buf))), lens, r.rest)

\* gnutls_sbuf_write(sb, data, data_size).
gnutls_sbuf_write(b, sent, data, append_fails, script) ==
    LET finish(r) == [r EXCEPT !.ret = IF r.ret < 0 THEN r.ret ELSE Len(data)] IN
    IF append_fails THEN SbufOut(TRUE, GNUTLS_E_MEMORY_ERROR, b.buf, sent, <<>>, script)
    ELSE finish(write_loop(b.flags, b.buf \o data, sent, <<>>, script))

\* The bookkeeping of one pass of the loop of gnutls_sbuf_flush, with the
\* total left as it was.
flush_advance_forgets_total(buf, total, ret) ==
    [buf |-> Drop(buf, ret), total |-> total]

\* The bookkeeping of one pass of the loop of gnutls_sbuf_flush, with
\* sb->buf.data left where it was.
flush_advance_keeps_data(buf, total, ret) ==
    [buf |-> buf, total |-> total + ret]

\* The bookkeeping of one pass of the loop of gnutls_sbuf_flush:
\*   sb->buf.data += ret; sb->buf.length -= ret; total += ret;
flush_advance(buf, total, ret) ==
    [buf |-> Drop(buf, ret), total |-> total + ret]

RECURSIVE flush_loop(_, _, _, _, _)
RECURSIVE flush_sent(_, _, _, _, _)
\* The loop of gnutls_sbuf_flush, at its condition.
flush_loop(buf, sent, total, lens, script) ==
    IF Len(buf) > 0
    THEN flush_sent(buf, sent, total, Append(lens, Len(buf)), do_while(script))
    ELSE SbufOut(TRUE, total, buf, sent, lens, script)

\* The loop of gnutls_sbuf_flush, after its do-while returned r.
flush_sent(buf, sent, total, lens, r) ==
    LET again(a, taken) == flush_loop(a.buf, sent \o taken, a.total, lens, r.rest) IN
    IF ~r.done THEN SbufOut(FALSE, 0, buf, sent, lens, <<>>)
    ELSE IF r.ret < 0 THEN SbufOut(TRUE, r.ret, buf, sent, lens, r.rest)
    ELSE again(flush_advance(buf, total, Accepted(r.ret, Len(buf))),
               Take(buf, Accepted(r.ret, Len(buf))))

\* gnutls_sbuf_flush(sb).
gnutls_sbuf_flush(b, sent, script) == flush_loop(b.buf, sent, 0, <<>>, script)

\* The last statement of gnutls_sbuf_read: return 0.
read_result(ret) == 0

\* gnutls_sbuf_read(sb, data, data_size): got is what gnutls_record_recv
\* returned when the loop ended.
gnutls_sbuf_read(script) ==
    LET after(r) ==
          IF ~r.done THEN [done |-> FALSE, ret |-> 0, got |-> 0, rest |-> <<>>]
          ELSE IF r.ret < 0 THEN [done |-> TRUE, ret |-> r.ret, got |-> r.ret, rest |-> r.rest]
          ELSE [done |-> TRUE, ret |-> read_result(r.ret), got |-> r.ret, rest |-> r.rest]
    IN after(do_while(script))

\* What gnutls_sbuf_handshake returns after a fatal error ret of the
\* handshake and the alert's ret2.
handshake_result(ret, ret2) == ret

\* gnutls_sbuf_handshake(sb): alerts lists the error codes passed to
\* gnutls_alert_send_appropriate, got what gnutls_handshake returned last.
gnutls_sbuf_handshake(script) ==
    LET stuck == [done |-> FALSE, ret |-> 0, got |-> 0, alerts |-> <<>>, rest |-> <<>>]
        alerted(h, a) ==
          IF ~a.done THEN stuck
          ELSE [done |-> TRUE, ret |-> handshake_result(h.ret, a.ret), got |-> h.ret,
                alerts |-> <<h.ret>>, rest |-> a.rest]
        after(h) ==
          IF ~h.done THEN stuck
          ELSE IF h.ret < 0 THEN alerted(h, do_while(h.rest))
          ELSE [done |-> TRUE, ret |-> 0, got |-> h.ret, alerts |-> <<>>, rest |-> h.rest]
    IN after(do_while(script))

\* What gnutls_sbuf_deinit does to the session of the sbuf.
sbuf_deinit_session(b, ses) ==
    IF b.session # "null"
    THEN [ses EXCEPT !.byes = @ + 1, !.deinits = @ + 1, !.st = "deinit"]
    ELSE ses

\* gnutls_sbuf_deinit(sb): the session, then the buffer, then the structure.
gnutls_sbuf_deinit(b, ses) ==
    [session |-> sbuf_deinit_session(b, ses),
     sb |-> [b EXCEPT !.buf = <<>>, !.st = "freed"]]

\* gnutls_sbuf_sinit(&sb, session, flags).
gnutls_sbuf_sinit(flags, malloc_fails) ==
    IF malloc_fails THEN [ret |-> GNUTLS_E_MEMORY_ERROR, sb |-> NoSbuf]
    ELSE [ret |-> 0, sb |-> [st |-> "live", session |-> "set", flags |-> flags, buf |-> <<>>]]

\* The structure gnutls_sbuf_client_init and gnutls_sbuf_server_init fill in.
sbuf_of_init(flags) == [st |-> "live", session |-> "set", flags |-> flags, buf |-> <<>>]

\* What gnutls_sbuf_client_init and gnutls_sbuf_server_init hand back: the
\* return value, the structure and the session of the call after it, and
\* what is left of the script of gnutls_handshake.
InitOut(done, ret, b, ses, rest) ==
    [done |-> done, ret |-> ret, sb |-> b, session |-> ses, rest |-> rest]

\* The label fail1: gnutls_sbuf_deinit(sb) if sb was allocated, then
\* gnutls_deinit(session).
init_fail1(ret, b, ses, rest) ==
    LET d == IF b.st # "null" THEN gnutls_sbuf_deinit(b, ses)
             ELSE [session |-> ses, sb |-> b]
    IN InitOut(TRUE, ret, d.sb,
               [d.session EXCEPT !.deinits = @ + 1, !.st = "deinit"], rest)

\* A return that passes by fail1: the structure stays allocated and *isb is
\* not set, the session stays initialized.
init_return(ret, b, ses, rest) ==
    InitOut(TRUE, ret, [b EXCEPT !.st = "leaked"], ses, rest)

\* The handshake loop that ends both functions, and what follows it.
init_handshake(b, ses, h) ==
    IF ~h.done THEN InitOut(FALSE, 0, b, ses, <<>>)
    ELSE IF h.ret < 0 THEN init_fail1(h.ret, b, ses, h.rest)
    ELSE InitOut(TRUE, 0, b, ses, h.rest)

\* gnutls_sbuf_client_init(&sb, hostname, service, fd, priority, cred, flags).
\* a holds the arguments, e.fail the library call that fails.
gnutls_sbuf_client_init(a, e, script) ==
    LET b == sbuf_of_init(a.flags) IN
    IF e.fail = "init"
    THEN InitOut(TRUE, GNUTLS_E_MEMORY_ERROR, NoSbuf, [NewSession EXCEPT !.st = "null"],
                 script)
    ELSE IF e.fail = "calloc"
    THEN init_fail1(GNUTLS_E_MEMORY_ERROR, NoSbuf, NewSession, script)
    ELSE IF e.fail = "priority"
    THEN init_fail1(GNUTLS_E_INVALID_REQUEST, b, NewSession, script)
    ELSE IF a.xcred /\ e.fail = "credentials"
    THEN init_fail1(GNUTLS_E_INVALID_REQUEST, b, NewSession, script)
    ELSE IF a.hostname = "long"
    THEN init_return(GNUTLS_E_INVALID_REQUEST, b, NewSession, script)
    ELSE IF a.hostname # "null" /\ e.fail = "server_name"
    THEN init_fail1(GNUTLS_E_SHORT_MEMORY_BUFFER, b, NewSession, script)
    ELSE IF a.service = "long"
    THEN init_return(GNUTLS_E_INVALID_REQUEST, b, NewSession, script)
    ELSE init_handshake(b, NewSession, do_while(script))

\* gnutls_sbuf_server_init(&sb, fd, priority, cred, flags).
gnutls_sbuf_server_init(a, e, script) ==
    LET b == sbuf_of_init(a.flags) IN
    IF e.fail = "init"
    THEN InitOut(TRUE, GNUTLS_E_MEMORY_ERROR, NoSbuf, [NewSession EXCEPT !.st = "null"],
                 script)
    ELSE IF e.fail = "calloc"
    THEN init_fail1(GNUTLS_E_MEMORY_ERROR, NoSbuf, NewSession, script)
    ELSE IF e.fail = "priority"
    THEN init_fail1(GNUTLS_E_INVALID_REQUEST, b, NewSession, script)
    ELSE IF a.xcred /\ e.fail = "credentials"
    THEN init_fail1(GNUTLS_E_INVALID_REQUEST, b, NewSession, script)
    ELSE init_handshake(b, NewSession, do_while(script))

\* ------------------------------------- one gnutls_sbuf_st, any calls on it

Errors == {GNUTLS_E_AGAIN, GNUTLS_E_INTERRUPTED, GNUTLS_E_PUSH_ERROR}

\* What gnutls_record_send returns: an error, or the octets it accepted.
SendOutcomes == Errors \cup 1..MAX_RECORD_SEND_SIZE

\* What gnutls_record_recv returns: an error, 0 at the end of the stream, or
\* the octets it delivered.
RecvOutcomes == Errors \cup 0..MaxWrite

\* What gnutls_handshake and gnutls_alert_send_appropriate return.
HandshakeOutcomes == Errors \cup {GNUTLS_E_DECRYPTION_FAILED, 0}

Scripts(outcomes) == UNION {[1..n -> outcomes] : n \in 0..MaxScript}

\* The octets of a write: numbered on from those written before.
Fresh(w, n) == [j \in 1..n |-> w + j]

\* The record of the last call of the buffered interface: op and its return
\* value, the data_size given, the octets buffered when it was called, the
\* lengths passed to gnutls_record_send, what the library returned last, the
\* alerts asked for, and all the octets appended to the buffer so far.
SbufCall(op, ret, data_size, lens, got, alerts, written) ==
    [op |-> op, n |-> slast.n + 1, ret |-> ret, data_size |-> data_size,
     buffered |-> Len(sb.buf), lens |-> lens, got |-> got, alerts |-> alerts,
     written |-> written, fail |-> "none"]

\* The sbuf is allocated and may be called once more.
SbufAlive == sb.st = "live" /\ slast.n < MaxSbufCalls

\* The whole script was used, and the call returned.
Ran(r) == r.done /\ r.rest = <<>>

\* The application passes a session it has initialized.
SbufSinit ==
    /\ sb.st = "null"
    /\ session.st = "live"
    /\ slast.n < MaxSbufCalls
    /\ \E flags \in {0, GNUTLS_SBUF_WRITE_FLUSHES}, malloc_fails \in BOOLEAN :
         LET r == gnutls_sbuf_sinit(flags, malloc_fails)
         IN /\ sb' = r.sb
            /\ slast' = SbufCall("gnutls_sbuf_sinit", r.ret, 0, <<>>, 0, <<>>, slast.written)
    /\ UNCHANGED session
    /\ UNCHANGED outsideSbuf

\* A hostname or service name: none, one that fits in the structure, one
\* that does not.
Names == {"null", "fits", "long"}

\* The library calls that may fail in the two init functions.
InitFails == {"none", "init", "calloc", "priority", "credentials", "server_name"}

SbufClientInit ==
    /\ sb.st = "null"
    /\ slast.n < MaxSbufCalls
    /\ \E hostname \in Names, service \in Names, xcred \in BOOLEAN,
          flags \in {0, GNUTLS_SBUF_WRITE_FLUSHES}, fail \in InitFails,
          script \in Scripts({GNUTLS_E_AGAIN, GNUTLS_E_DECRYPTION_FAILED, 0}) :
         LET r == gnutls_sbuf_client_init(
                      [hostname |-> hostname, service |-> service, xcred |-> xcred,
                       flags |-> flags], [fail |-> fail], script)
         IN /\ Ran(r)
            /\ sb' = r.sb
            /\ session' = r.session
            /\ slast' = [SbufCall("gnutls_sbuf_client_init", r.ret, 0, <<>>, 0, <<>>,
                                  slast.written) EXCEPT !.fail = fail]
    /\ UNCHANGED outsideSbuf

SbufServerInit ==
    /\ sb.st = "null"
    /\ slast.n < MaxSbufCalls
    /\ \E xcred \in BOOLEAN, flags \in {0, GNUTLS_SBUF_WRITE_FLUSHES},
          fail \in InitFails \ {"server_name"},
          script \in Scripts({GNUTLS_E_AGAIN, GNUTLS_E_DECRYPTION_FAILED, 0}) :
         LET r == gnutls_sbuf_server_init([xcred |-> xcred, flags |-> flags],
                                          [fail |-> fail], script)
         IN /\ Ran(r)
            /\ sb' = r.sb
            /\ session' = r.session
            /\ slast' = [SbufCall("gnutls_sbuf_server_init", r.ret, 0, <<>>, 0, <<>>,
                                  slast.written) EXCEPT !.fail = fail]
    /\ UNCHANGED outsideSbuf

SbufWrite ==
    /\ SbufAlive
    /\ \E n \in 0..MaxWrite, append_fails \in BOOLEAN, script \in Scripts(SendOutcomes) :
         LET data == Fresh(Len(slast.written), n)
             r == gnutls_sbuf_write(sb, session.sent, data, append_fails, script)
         IN /\ Ran(r)
            /\ sb' = [sb EXCEPT !.buf = r.buf]
            /\ session' = [session EXCEPT !.sent = r.sent]
            /\ slast' = SbufCall("gnutls_sbuf_write", r.ret, n, r.lens, 0, <<>>,
                                 IF append_fails THEN slast.written
                                 ELSE slast.written \o data)
    /\ UNCHANGED outsideSbuf

SbufFlush ==
    /\ SbufAlive
    /\ \E script \in Scripts(SendOutcomes) :
         LET r == gnutls_sbuf_flush(sb, session.sent, script)
         IN /\ Ran(r)
            /\ sb' = [sb EXCEPT !.buf = r.buf]
            /\ session' = [session EXCEPT !.sent = r.sent]
            /\ slast' = SbufCall("gnutls_sbuf_flush", r.ret, 0, r.lens, 0, <<>>,
                                 slast.written)
    /\ UNCHANGED outsideSbuf

SbufRead ==
    /\ SbufAlive
    /\ \E script \in Scripts(RecvOutcomes) :
         LET r == gnutls_sbuf_read(script)
         IN /\ Ran(r)
            /\ slast' = SbufCall("gnutls_sbuf_read", r.ret, MaxWrite, <<>>, r.got, <<>>,
                                 slast.written)
    /\ UNCHANGED <<sb, session>>
    /\ UNCHANGED outsideSbuf

SbufHandshake ==
    /\ SbufAlive
    /\ \E script \in Scripts(HandshakeOutcomes) :
         LET r == gnutls_sbuf_handshake(script)
         IN /\ Ran(r)
            /\ session' = [session EXCEPT !.alerts = @ \o r.alerts]
            /\ slast' = SbufCall("gnutls_sbuf_handshake", r.ret, 0, <<>>, r.got, r.alerts,
                                 slast.written)
    /\ UNCHANGED sb
    /\ UNCHANGED outsideSbuf

SbufDeinit ==
    /\ SbufAlive
    /\ LET r == gnutls_sbuf_deinit(sb, session)
       IN /\ sb' = r.sb
          /\ session' = r.session
          /\ slast' = SbufCall("gnutls_sbuf_deinit", 0, 0, <<>>, 0, <<>>, slast.written)
    /\ UNCHANGED outsideSbuf

\* No key exchange is in progress.
AnonUnused ==
    /\ key = NewKey(NoCred, NoInfo)
    /\ last = NoCall
    /\ ncalls = 0
    /\ srv = NewKey(NoCred, NoInfo)
    /\ cli = NewKey(NoCred, NoInfo)
    /\ wire = [s2c |-> NoBuf, c2s |-> NoBuf]
    /\ pc = "start"

SbufInit == NoSbufUse /\ NoPkcs7Use /\ NoPkcs11Use /\ AnonUnused

SbufNext ==
    \/ SbufSinit \/ SbufClientInit \/ SbufServerInit
    \/ SbufWrite \/ SbufFlush \/ SbufRead \/ SbufHandshake \/ SbufDeinit

SpecSbuf == SbufInit /\ [][SbufNext]_vars

\* ------------------------------------------------- properties of lib/sbuf.c

\* C25: gnutls_sbuf_read returns the number of octets gnutls_record_recv
\* delivered, and returns 0 only at the end of the stream.
C25_ReadCount ==
    slast.op = "gnutls_sbuf_read"
    => /\ slast.got > 0 => slast.ret = slast.got
       /\ slast.ret = 0 => slast.got = 0

\* C26: after gnutls_sbuf_deinit the buffer of the sbuf is cleared, and the
\* session has neither been sent a bye nor been deinitialized.
C26_SessionIntact ==
    slast.op = "gnutls_sbuf_deinit"
    => /\ sb.buf = <<>>
       /\ session.byes = 0
       /\ session.deinits = 0
       /\ session.st = "live"

\* C27: when gnutls_sbuf_flush returns a value that is not negative the
\* buffer is empty, the value is the number of octets that were buffered
\* when it was called, and those octets were accepted by the record layer in
\* order; a negative value it returns is a fatal error code.
C27_FlushSendsAll ==
    [][(slast'.n = slast.n + 1 /\ slast'.op = "gnutls_sbuf_flush")
       => /\ slast'.ret >= 0
               => /\ Len(sb'.buf) = 0
                  /\ slast'.ret = Len(sb.buf)
                  /\ session'.sent = session.sent \o sb.buf
          /\ slast'.ret < 0 => gnutls_error_is_fatal(slast'.ret) = 1]_vars

\* A flush emptied a buffer of three octets or more in several sends.
C27_Witness ==
    /\ slast.op = "gnutls_sbuf_flush"
    /\ slast.ret >= 3
    /\ slast.ret = slast.buffered
    /\ Len(slast.lens) >= 2
    /\ sb.buf = <<>>

\* C28: without GNUTLS_SBUF_WRITE_FLUSHES a write passes nothing to the
\* record layer; with it, every length passed to gnutls_record_send is at
\* least MAX_RECORD_SEND_SIZE, and after a successful write fewer octets
\* than that are buffered; a successful write returns data_size and the
\* buffer and the accepted octets together are what they were, then the data.
C28_WriteBuffers ==
    [][(slast'.n = slast.n + 1 /\ slast'.op = "gnutls_sbuf_write")
       => /\ ~HasFlag(sb.flags, GNUTLS_SBUF_WRITE_FLUSHES)
               => slast'.lens = <<>> /\ session'.sent = session.sent
          /\ \A i \in 1..Len(slast'.lens) : slast'.lens[i] >= MAX_RECORD_SEND_SIZE
          /\ slast'.ret >= 0
               => /\ slast'.ret = slast'.data_size
                  /\ HasFlag(sb.flags, GNUTLS_SBUF_WRITE_FLUSHES)
                       => Len(sb'.buf) < MAX_RECORD_SEND_SIZE
                  /\ session'.sent \o sb'.buf =
                       session.sent \o sb.buf
                         \o SubSeq(slast'.written, Len(slast.written) + 1,
                                   Len(slast'.written))
                  /\ Len(slast'.written) = Len(slast.written) + slast'.data_size]_vars

\* A write with the flag set found the buffer below a record, filled it past
\* one, and sent until less than a record was left.
C28_Witness ==
    /\ slast.op = "gnutls_sbuf_write"
    /\ HasFlag(sb.flags, GNUTLS_SBUF_WRITE_FLUSHES)
    /\ slast.ret = slast.data_size
    /\ slast.data_size >= 1
    /\ slast.buffered < MAX_RECORD_SEND_SIZE
    /\ Len(slast.lens) >= 1
    /\ Len(sb.buf) = 1

\* C29: a negative value gnutls_sbuf_handshake or gnutls_sbuf_read returns
\* is a fatal error code, and it is what the underlying call returned last;
\* the underlying call is repeated while its error is not fatal; after a
\* fatal error of the handshake an alert is asked for that error and the
\* error of the handshake is returned, whatever the alert returned.
C29_OnlyFatalErrors ==
    slast.op \in {"gnutls_sbuf_handshake", "gnutls_sbuf_read"}
    => /\ slast.ret < 0 => gnutls_error_is_fatal(slast.ret) = 1 /\ slast.ret = slast.got
       /\ slast.got < 0 => gnutls_error_is_fatal(slast.got) = 1 /\ slast.ret = slast.got
       /\ slast.op = "gnutls_sbuf_handshake"
            => /\ slast.got < 0 => slast.alerts = <<slast.got>>
               /\ slast.got >= 0 => slast.alerts = <<>> /\ slast.ret = 0

\* A handshake failed to decrypt, and the alert for it was asked for.
C29_Witness ==
    /\ slast.op = "gnutls_sbuf_handshake"
    /\ slast.ret = GNUTLS_E_DECRYPTION_FAILED
    /\ slast.alerts = <<GNUTLS_E_DECRYPTION_FAILED>>
    /\ session.alerts # <<>>

\* ========================================================= lib/x509/pkcs7.c

\* Most elements of a certificate set.
MaxCerts == 2

\* Most octets of the encoding of one element.
MaxDer == 2

SIGNED_DATA_OID == "1.2.840.113549.1.7.2"

GNUTLS_E_REQUESTED_DATA_NOT_AVAILABLE == -56

GNUTLS_E_UNSUPPORTED_CERTIFICATE_TYPE == -61

GNUTLS_E_ASN1_GENERIC_ERROR == -71

\* _gnutls_asn2err(result), for the results of the ASN.1 library.
_gnutls_asn2err(result) ==
    IF result = "ASN1_SUCCESS" THEN 0 ELSE GNUTLS_E_ASN1_GENERIC_ERROR

\* The octets of the SignedData that precede its certificate set.
SignedDataHeader == <<0>>

RECURSIVE SumLen(_)
SumLen(certs) == IF certs = <<>> THEN 0 ELSE Head(certs).len + SumLen(Tail(certs))

\* asn1_read_value(pkcs7, "content", tmp, &tmp_size): the encoding of the
\* SignedData, every octet of which is told apart by its position.
ContentDer(p) == [i \in 1..(Len(SignedDataHeader) + SumLen(p.certs)) |-> i]

\* asn1_read_value(c2, "certificates.?<el>", oid, &len): the name of the
\* choice of element el, or that there is no such element.
asn1_read_choice(p, el) ==
    IF el \in 1..Len(p.certs)
    THEN [result |-> "ASN1_SUCCESS", oid |-> p.certs[el].choice]
    ELSE [result |-> "ASN1_VALUE_NOT_FOUND", oid |-> ""]

\* asn1_der_decoding_startEnd(c2, tmp, tmp_size, root2, &start, &end): the
\* indices in tmp of the first and the last octet of element el.
asn1_der_decoding_startEnd(p, el) ==
    [start |-> Len(SignedDataHeader) + SumLen(SubSeq(p.certs, 1, el - 1)),
     end |-> Len(SignedDataHeader) + SumLen(SubSeq(p.certs, 1, el)) - 1]

\* The length of the element without its last octet.
cert_length_short(start, end) == end - start

\* end = end-start+1: the length of the element.
cert_length(start, end) == end - start + 1

\* What gnutls_pkcs7_get_certificate hands back: its return value, the
\* caller's buffer and *certificate_size after it, and what it allocated and
\* did not free.
P7Out(ret, certificate, certificate_size, unfreed) ==
    [ret |-> ret, certificate |-> certificate, certificate_size |-> certificate_size,
     unfreed |-> unfreed]

\* The end of gnutls_pkcs7_get_certificate for an element that is a
\* certificate: the size check, the copy, the size.
copy_certificate(tmp, se, certificate, certificate_size) ==
    LET copied(end) ==
          IF end > certificate_size
          THEN P7Out(GNUTLS_E_SHORT_MEMORY_BUFFER, certificate, end, {})
          ELSE P7Out(0,
                     IF certificate.st = "live"
                     THEN Buf(Poke(certificate.b, 0, Run(tmp, se.start, end)))
                     ELSE certificate,
                     end, {})
    IN copied(cert_length(se.start, se.end))

\* gnutls_pkcs7_get_certificate(pkcs7, indx, certificate, certificate_size).
\* size is the pointer certificate_size, e.fail the call that fails.
gnutls_pkcs7_get_certificate(p, indx, certificate, size, e) ==
    LET same(ret) == P7Out(ret, certificate, size.v, {})
        failed == _gnutls_asn2err("ASN1_GENERIC_ERROR")
        choice(c) ==
          IF c.result = "ASN1_VALUE_NOT_FOUND" THEN same(GNUTLS_E_REQUESTED_DATA_NOT_AVAILABLE)
          ELSE IF e.fail = "choice" THEN same(failed)
          ELSE IF c.oid # "certificate" THEN same(GNUTLS_E_UNSUPPORTED_CERTIFICATE_TYPE)
          ELSE IF e.fail = "startEnd" THEN same(failed)
          ELSE copy_certificate(ContentDer(p), asn1_der_decoding_startEnd(p, indx + 1),
                                certificate, size.v)
    IN
    IF size.st = "null" THEN same(GNUTLS_E_INVALID_REQUEST)
    ELSE IF e.fail = "contentType" THEN same(failed)
    ELSE IF p.oid # SIGNED_DATA_OID THEN same(GNUTLS_E_REQUESTED_DATA_NOT_AVAILABLE)
    ELSE IF e.fail = "content_size" THEN same(failed)
    ELSE IF e.fail = "malloc" THEN same(GNUTLS_E_MEMORY_ERROR)
    ELSE IF e.fail \in {"content", "create", "decode"} THEN same(failed)
    ELSE choice(asn1_read_choice(p, indx + 1))

\* asn1_number_of_elements(c2, "certificates", &count).
asn1_number_of_elements(p, fails) ==
    IF fails THEN [result |-> "ASN1_GENERIC_ERROR", count |-> 0]
    ELSE [result |-> "ASN1_SUCCESS", count |-> Len(p.certs)]

\* The end of gnutls_pkcs7_get_certificate_count: what it returns for the
\* result of asn1_number_of_elements.
count_result(n) == IF n.result # "ASN1_SUCCESS" THEN 0 ELSE n.count

\* gnutls_pkcs7_get_certificate_count(pkcs7). e.fail is the call that fails.
gnutls_pkcs7_get_certificate_count(p, e) ==
    LET failed == _gnutls_asn2err("ASN1_GENERIC_ERROR") IN
    IF e.fail = "contentType" THEN failed
    ELSE IF p.oid # SIGNED_DATA_OID THEN GNUTLS_E_REQUESTED_DATA_NOT_AVAILABLE
    ELSE IF e.fail = "content_size" THEN failed
    ELSE IF e.fail = "malloc" THEN GNUTLS_E_MEMORY_ERROR
    ELSE IF e.fail \in {"content", "create", "decode"} THEN failed
    ELSE count_result(asn1_number_of_elements(p, e.fail = "count"))

\* ------------------------------------ one gnutls_pkcs7, any calls on it

\* An element of a certificate set: its choice and the length of its encoding.
Elements ==
    [choice : {"certificate", "extendedCertificate"}, len : 1..MaxDer]

\* The structures gnutls_pkcs7_import yields: signed data with a certificate
\* set, or content of another type.
Structures ==
    [oid : {SIGNED_DATA_OID, "1.2.840.113549.1.7.1"},
     certs : UNION {[1..n -> Elements] : n \in 0..MaxCerts}]

\* The calls of the ASN.1 library and of malloc that may fail.
P7Fails ==
    {"none", "contentType", "content_size", "malloc", "content", "create", "decode",
     "choice", "startEnd"}

\* The buffers a caller passes: none, or one of n octets with
\* *certificate_size = n.
P7Buffers ==
    {[certificate |-> NoBuf, size |-> [st |-> "live", v |-> n]] : n \in 0..MaxDer}
    \cup {[certificate |-> Buf(Malloc(n)), size |-> [st |-> "live", v |-> n]] :
            n \in 0..MaxDer}
    \cup {[certificate |-> Buf(Malloc(MaxDer)), size |-> [st |-> "null", v |-> 0]]}

\* One call on the structure: the function leaves the structure as it is, so
\* a second call meets the state of the first.
P7GetCertificate ==
    /\ plast.op = "none"
    /\ \E indx \in 0..MaxCerts, b \in P7Buffers, fail \in P7Fails :
         LET r == gnutls_pkcs7_get_certificate(pkcs7, indx, b.certificate, b.size,
                                               [fail |-> fail])
         IN plast' = [op |-> "gnutls_pkcs7_get_certificate", indx |-> indx,
                      given |-> b.certificate, size |-> b.size.st,
                      size_in |-> b.size.v, fail |-> fail,
                      ret |-> r.ret, certificate |-> r.certificate,
                      certificate_size |-> r.certificate_size, unfreed |-> r.unfreed]
    /\ UNCHANGED pkcs7
    /\ UNCHANGED outsidePkcs7

\* The calls that may fail in gnutls_pkcs7_get_certificate_count.
P7CountFails ==
    {"none", "contentType", "content_size", "malloc", "content", "create", "decode",
     "count"}

P7GetCertificateCount ==
    /\ plast.op = "none"
    /\ \E fail \in P7CountFails :
         plast' = [NoP7Call EXCEPT !.op = "gnutls_pkcs7_get_certificate_count",
                                   !.fail = fail,
                                   !.ret = gnutls_pkcs7_get_certificate_count(
                                               pkcs7, [fail |-> fail])]
    /\ UNCHANGED pkcs7
    /\ UNCHANGED outsidePkcs7

P7Init ==
    /\ pkcs7 \in Structures
    /\ plast = NoP7Call
    /\ NoSbufUse
    /\ NoPkcs11Use
    /\ AnonUnused

P7Next == P7GetCertificate \/ P7GetCertificateCount

SpecPkcs7 == P7Init /\ [][P7Next]_vars

\* ------------------------------------------- properties of lib/x509/pkcs7.c

\* The octets of element el of the certificate set of p.
CertificateOf(p, el) ==
    SubSeq(ContentDer(p), Len(SignedDataHeader) + SumLen(SubSeq(p.certs, 1, el - 1)) + 1,
           Len(SignedDataHeader) + SumLen(SubSeq(p.certs, 1, el)))

\* C30: when no library call fails, on signed data gnutls_pkcs7_get_certificate
\* returns GNUTLS_E_REQUESTED_DATA_NOT_AVAILABLE for an index after the last
\* element; for the index of a certificate whose octets fit in
\* *certificate_size it returns 0, sets *certificate_size to their number
\* and copies them to the start of the buffer given; when they do not fit it
\* returns GNUTLS_E_SHORT_MEMORY_BUFFER, sets *certificate_size to their
\* number and leaves the buffer as it was.
C30_GetCertificate ==
    (/\ plast.op = "gnutls_pkcs7_get_certificate"
     /\ plast.fail = "none"
     /\ plast.size = "live"
     /\ pkcs7.oid = SIGNED_DATA_OID)
    => /\ plast.indx >= Len(pkcs7.certs)
            => /\ plast.ret = GNUTLS_E_REQUESTED_DATA_NOT_AVAILABLE
               /\ plast.certificate = plast.given
       /\ (/\ plast.indx < Len(pkcs7.certs)
           /\ pkcs7.certs[plast.indx + 1].choice = "certificate")
            => LET cert == CertificateOf(pkcs7, plast.indx + 1) IN
               /\ plast.certificate_size = Len(cert)
               /\ Len(cert) <= plast.size_in
                    => /\ plast.ret = 0
                       /\ plast.given.st = "live"
                            => /\ SubSeq(plast.certificate.b, 1, Len(cert)) = cert
                               /\ SubSeq(plast.certificate.b, Len(cert) + 1, plast.size_in)
                                    = SubSeq(plast.given.b, Len(cert) + 1, plast.size_in)
               /\ Len(cert) > plast.size_in
                    => /\ plast.ret = GNUTLS_E_SHORT_MEMORY_BUFFER
                       /\ plast.certificate = plast.given

\* The second element of a set, a certificate of two octets, was asked for
\* with a buffer of one octet, which was left as it was.
C30_Witness ==
    /\ plast.op = "gnutls_pkcs7_get_certificate"
    /\ plast.indx = 1
    /\ plast.ret = GNUTLS_E_SHORT_MEMORY_BUFFER
    /\ plast.size_in = 1
    /\ plast.certificate_size = 2
    /\ plast.given.st = "live"
    /\ plast.certificate = plast.given

\* C31: gnutls_pkcs7_get_certificate_count returns the number of elements of
\* the certificate set when no call fails on signed data, and a negative
\* value when a call fails or the content is not signed data.
C31_CountOrNegative ==
    plast.op = "gnutls_pkcs7_get_certificate_count"
    => IF plast.fail = "none" /\ pkcs7.oid = SIGNED_DATA_OID
       THEN plast.ret = Len(pkcs7.certs)
       ELSE plast.ret < 0

\* ------------------------------------ further properties of lib/auth_anon.c

\* C32: client-process does not refuse for its length a buffer whose three
\* length-prefixed fields lie within data_size, whatever the lengths of the
\* fields are to one another.
C32_FittingAccepted ==
    (/\ last.op = "proc_anon_server_kx"
     /\ FieldsFit(last.data, last.data_size, 0, 3))
    => last.ret # "GNUTLS_E_UNEXPECTED_PACKET_LENGTH"

\* C33: a failing return of server-generate leaves no integer of the call
\* allocated (modulus, generator, public value, exponent), and leaves the
\* exponent and the auth_info of the session as they were before the call.
C33_FailureReleasesAll ==
    [][(Called("gen_anon_server_kx") /\ last'.ret \notin {"OK", "SIGSEGV"})
       => /\ last'.leaked = {}
          /\ last'.held = {}
          /\ key'.dh_secret = key.dh_secret
          /\ key'.auth_info = key.auth_info]_vars

\* C34: when client-generate returns a failure, *data does not point to a
\* buffer allocated by the call.
C34_NoMessageOnFailure ==
    (last.op = "gen_anon_client_kx" /\ last.ret \notin {"OK", "SIGSEGV"})
    => last.out.st = "null"

\* ----------------------------------------- further properties of lib/sbuf.c

\* C35: the octets the record layer accepted are, in order, the first of the
\* octets written, and the buffer holds the rest of them, in order.
C35_SentIsPrefix ==
    /\ Len(session.sent) <= Len(slast.written)
    /\ session.sent = SubSeq(slast.written, 1, Len(session.sent))
    /\ sb.st = "live" => session.sent \o sb.buf = slast.written

\* A flush was stopped by a fatal error after the record layer had accepted
\* a part of the buffer, and octets are left in the buffer.
C35_Witness ==
    /\ slast.op = "gnutls_sbuf_flush"
    /\ slast.ret < 0
    /\ Len(slast.lens) >= 2
    /\ session.sent # <<>>
    /\ sb.buf # <<>>
    /\ sb.st = "live"

\* C36: after a failing gnutls_sbuf_client_init or gnutls_sbuf_server_init
\* the session the call created has been deinitialized once, and the
\* structure, if the call allocated it, has been freed.
C36_InitFailureCleansUp ==
    (/\ slast.op \in {"gnutls_sbuf_client_init", "gnutls_sbuf_server_init"}
     /\ slast.ret < 0
     /\ session.st # "null")
    => /\ session.deinits = 1
       /\ sb.st \in {"null", "freed"}

\* ==================================================== lib/pkcs11_privkey.c

GNUTLS_E_UNKNOWN_ALGORITHM == -105

GNUTLS_E_PKCS11_ERROR == -300

GNUTLS_E_PARSING_ERROR == -302

\* pkcs11_rv_to_err(rv) for a value other than CKR_OK.
pkcs11_rv_to_err(rv) == IF rv = "CKR_OK" THEN 0 ELSE GNUTLS_E_PKCS11_ERROR

\* What the macro FIND_OBJECT leaves behind: whether it returned from the
\* function and with what, the value of ret, whether module, pks and obj
\* were set by a successful lookup, the calls of pkcs11_find_object, and the
\* retry counts passed to pkcs11_call_token_func.
FindOut(returns, ret, found, finds, token_calls) ==
    [returns |-> returns, ret |-> ret, found |-> found, finds |-> finds,
     token_calls |-> token_calls]

\* `continue` inside do { ... } while (0): control goes to the condition,
\* which is 0, and the loop is left with ret and the handles as they are.
find_continue(ret, retries) == FindOut(FALSE, ret, FALSE, 1, <<retries>>)

\* FIND_OBJECT(module, pks, obj, key).  e.lookup is what pkcs11_find_object
\* returns, e.token_func whether a token callback is set, e.rret what
\* pkcs11_call_token_func returns.
FIND_OBJECT(e) ==
    IF e.lookup = GNUTLS_E_REQUESTED_DATA_NOT_AVAILABLE
    THEN IF e.token_func
         THEN IF e.rret = 0 THEN find_continue(e.lookup, 0)
              ELSE FindOut(TRUE, e.lookup, FALSE, 1, <<0>>)
         ELSE FindOut(TRUE, e.lookup, FALSE, 1, <<>>)
    ELSE IF e.lookup < 0 THEN FindOut(TRUE, e.lookup, FALSE, 1, <<>>)
    ELSE FindOut(FALSE, e.lookup, TRUE, 1, <<>>)

\* What an operation hands back.  closes counts the calls of
\* pkcs11_close_session: on the session of the lookup when there is one, on
\* the uninitialized handle otherwise; used tells that module, pks or obj
\* were passed to the token.
P11Out(F, ret, crashed, used, closes, out, k) ==
    [ret |-> ret, crashed |-> crashed,
     opened |-> IF F.found THEN 1 ELSE 0,
     closed |-> IF F.found THEN closes ELSE 0,
     closed_uninit |-> IF F.found THEN 0 ELSE closes,
     used_uninit |-> used /\ ~F.found,
     finds |-> F.finds, token_calls |-> F.token_calls, out |-> out, key |-> k]

\* The label cleanup of the three operations: pkcs11_close_session, return.
p11_cleanup(F, ret, out, k) == P11Out(F, ret, FALSE, TRUE, 1, out, k)

\* The process dies when the token is called through an uninitialized
\* module pointer.
p11_crash(F, k) == P11Out(F, 0, TRUE, TRUE, 0, "null", k)

\* _gnutls_pkcs11_privkey_sign_hash(key, hash, signature).  e.fail is the
\* token call that fails, e.ub what the use of uninitialized handles does.
\* out is signature->data.
_gnutls_pkcs11_privkey_sign_hash(k, e) ==
    LET F == FIND_OBJECT(e) IN
    IF F.returns THEN P11Out(F, F.ret, FALSE, FALSE, 0, "null", k)
    ELSE IF ~F.found /\ e.ub = "segv" THEN p11_crash(F, k)
    ELSE IF e.fail = "init" THEN p11_cleanup(F, pkcs11_rv_to_err("CKR_FAILED"), "null", k)
    ELSE IF e.fail = "size" THEN p11_cleanup(F, pkcs11_rv_to_err("CKR_FAILED"), "null", k)
    ELSE IF e.fail = "final" THEN p11_cleanup(F, pkcs11_rv_to_err("CKR_FAILED"), "freed", k)
    ELSE p11_cleanup(F, 0, "live", k)

\* The test of the algorithm in _gnutls_pkcs11_privkey_decrypt_data, which
\* returns at once.
decrypt_not_rsa(F, k) == P11Out(F, GNUTLS_E_INVALID_REQUEST, FALSE, FALSE, 0, "null", k)

\* _gnutls_pkcs11_privkey_decrypt_data(key, flags, ciphertext, plaintext).
\* out is plaintext->data.
_gnutls_pkcs11_privkey_decrypt_data(k, e) ==
    LET F == FIND_OBJECT(e) IN
    IF F.returns THEN P11Out(F, F.ret, FALSE, FALSE, 0, "null", k)
    ELSE IF k.pk_algorithm # "GNUTLS_PK_RSA" THEN decrypt_not_rsa(F, k)
    ELSE IF ~F.found /\ e.ub = "segv" THEN p11_crash(F, k)
    ELSE IF e.fail = "init" THEN p11_cleanup(F, pkcs11_rv_to_err("CKR_FAILED"), "null", k)
    ELSE IF e.fail = "size" THEN p11_cleanup(F, pkcs11_rv_to_err("CKR_FAILED"), "null", k)
    ELSE IF e.fail = "final" THEN p11_cleanup(F, pkcs11_rv_to_err("CKR_FAILED"), "freed", k)
    ELSE p11_cleanup(F, 0, "live", k)

\* mech_to_pk(key_type).
mech_to_pk(key_type) ==
    IF key_type = "CKK_RSA" THEN "GNUTLS_PK_RSA"
    ELSE IF key_type = "CKK_DSA" THEN "GNUTLS_PK_DSA"
    ELSE "GNUTLS_PK_UNKNOWN"

\* gnutls_pkcs11_privkey_import_url(pkey, url, flags).  a.url tells what the
\* URL holds, a.key_type the CKA_KEY_TYPE of the object; e.fail = "init"
\* makes pkcs11_get_attribute_value fail.
gnutls_pkcs11_privkey_import_url(k, a, e) ==
    LET none == FindOut(TRUE, 0, FALSE, 0, <<>>)
        k1 == [k EXCEPT !.flags = a.flags]
        F == FIND_OBJECT(e)
        k2 == [k1 EXCEPT !.pk_algorithm = mech_to_pk(a.key_type)]
    IN
    IF a.url = "unparsable"
    THEN P11Out(none, GNUTLS_E_PARSING_ERROR, FALSE, FALSE, 0, "null", k)
    ELSE IF a.url = "no private key"
    THEN P11Out(none, GNUTLS_E_INVALID_REQUEST, FALSE, FALSE, 0, "null", k1)
    ELSE IF a.url = "no id"
    THEN P11Out(none, GNUTLS_E_REQUESTED_DATA_NOT_AVAILABLE, FALSE, FALSE, 0, "null", k1)
    ELSE IF F.returns THEN P11Out(F, F.ret, FALSE, FALSE, 0, "null", k1)
    ELSE IF ~F.found /\ e.ub = "segv" THEN p11_crash(F, k1)
    ELSE IF e.fail # "none" THEN p11_cleanup(F, 0, "null", k1)
    ELSE IF k2.pk_algorithm = "GNUTLS_PK_UNKNOWN"
    THEN p11_cleanup(F, GNUTLS_E_UNKNOWN_ALGORITHM, "null", k2)
    ELSE p11_cleanup(F, 0, "null", k2)

\* ------------------------------ one gnutls_pkcs11_privkey_t, any calls on it

\* What pkcs11_find_object returns.
LookupOutcomes == {0, GNUTLS_E_REQUESTED_DATA_NOT_AVAILABLE, GNUTLS_E_PKCS11_ERROR}

\* The environment of one operation.
P11Envs ==
    [lookup : LookupOutcomes, token_func : BOOLEAN, rret : {0, 1},
     fail : {"none", "init", "size", "final"}, ub : {"segv", "run"}]

\* The record of the last operation on the key.
P11Call(op, e, r) ==
    [op |-> op, lookup |-> e.lookup, token_func |-> e.token_func, rret |-> e.rret,
     fail |-> e.fail, ret |-> r.ret, crashed |-> r.crashed, opened |-> r.opened,
     closed |-> r.closed, closed_uninit |-> r.closed_uninit,
     used_uninit |-> r.used_uninit, finds |-> r.finds, token_calls |-> r.token_calls,
     out |-> r.out]

P11SignHash ==
    /\ ~klast.crashed
    /\ \E e \in P11Envs :
         LET r == _gnutls_pkcs11_privkey_sign_hash(privkey, e)
         IN /\ privkey' = r.key
            /\ klast' = P11Call("_gnutls_pkcs11_privkey_sign_hash", e, r)
    /\ UNCHANGED outsidePkcs11

P11DecryptData ==
    /\ ~klast.crashed
    /\ \E e \in P11Envs :
         LET r == _gnutls_pkcs11_privkey_decrypt_data(privkey, e)
         IN /\ privkey' = r.key
            /\ klast' = P11Call("_gnutls_pkcs11_privkey_decrypt_data", e, r)
    /\ UNCHANGED outsidePkcs11

P11ImportUrl ==
    /\ ~klast.crashed
    /\ \E e \in P11Envs,
          url \in {"unparsable", "no private key", "no id", "private key"},
          key_type \in {"CKK_RSA", "CKK_DSA", "CKK_EC"} :
         LET r == gnutls_pkcs11_privkey_import_url(
                      privkey, [url |-> url, key_type |-> key_type, flags |-> 0], e)
         IN /\ privkey' = r.key
            /\ klast' = P11Call("gnutls_pkcs11_privkey_import_url", e, r)
    /\ UNCHANGED outsidePkcs11

P11Init == NoPkcs11Use /\ NoSbufUse /\ NoPkcs7Use /\ AnonUnused

P11Next == P11SignHash \/ P11DecryptData \/ P11ImportUrl

SpecPkcs11 == P11Init /\ [][P11Next]_vars

\* ------------------------------------ properties of lib/pkcs11_privkey.c

\* C37: an operation passes module, pks and obj to the token only after a
\* lookup that succeeded; when pkcs11_find_object returned
\* GNUTLS_E_REQUESTED_DATA_NOT_AVAILABLE and the token callback returned 0,
\* the lookup was made again, with the retry count raised.
C37_LookupBeforeUse ==
    klast.op # "none"
    => /\ ~klast.used_uninit
       /\ klast.closed_uninit = 0
       /\ (/\ klast.lookup = GNUTLS_E_REQUESTED_DATA_NOT_AVAILABLE
           /\ klast.token_calls # <<>>
           /\ klast.rret = 0)
            => klast.finds >= 2

\* C38: the token session a successful lookup opened has been closed once
\* when the operation returns.
C38_SessionClosedOnce ==
    (klast.op # "none" /\ klast.opened = 1) => klast.closed = 1

====
